---- MODULE Spec2Model ----
(***************************************************************************)
(* The stage-aware verdict engine of the FLASH API (src/api_server.py)     *)
(* and the model-family fusion of src/api_integration_advanced.py.         *)
(*                                                                         *)
(* Units.  The code computes on Python floats; the model computes on       *)
(* exact fixed-point integers:                                             *)
(*   - a score or a probability p in [0,1] is the integer 1000*p           *)
(*     (0.45 is 450, a delta of -0.05 is -50);                             *)
(*   - a weight w is 1000*w (0.25 is 250);                                 *)
(*   - weighted_score, a sum of score*weight, is 1000000 times its value   *)
(*     (0.60 is 600000).                                                   *)
(* The model's arithmetic is exact; a float result that lands one ulp off  *)
(* a bar it equals in decimal (0.6 - 0.05 - 0.05 < 0.5) is not modelled.   *)
(* A dict is a function from its keys (strings) to values; a key the dict  *)
(* does not hold is outside its DOMAIN, and dict.get(k, d) is Get.         *)
(*                                                                         *)
(* Specifications.                                                         *)
(*   - Spec: direct calls of evaluate_startup_comprehensive and the        *)
(*     endpoints, in a process that found every model file at startup;     *)
(*   - ServerSpec: the process from startup_event on, with whichever       *)
(*     pillar and stage model files are there, serving /predict;           *)
(*   - RepeatSpec: a call of evaluate_startup_comprehensive is remembered  *)
(*     and made again after other calls;                                   *)
(*   - OutcomeSpec: the outcomes of schema-valid requests, collected;      *)
(*   - AdviceSpec: direct calls of generate_insights and                   *)
(*     generate_recommendation;                                            *)
(*   - LimiterSpec: requests of several clients to the rate-limited        *)
(*     endpoints while the clock advances;                                 *)
(*   - ValidationSpec: StartupMetrics built from request bodies with any   *)
(*     market sizes, then /predict;                                        *)
(*   - StartupSpec: startup_event step by step, any load of an optional    *)
(*     model raising or not.                                               *)
(***************************************************************************)
EXTENDS Integers, Sequences, FiniteSets, TLC

VARIABLES
    STAGE_MODEL,       \* the module global: None, or the loaded stage model
    PILLAR_MODELS,     \* the module global: the pillars whose model is loaded
    remembered,        \* an earlier call kept for comparison with a later one
    seen,              \* the (verdict, strength) pairs returned so far
    pc,                \* "startup": before startup_event; "idle": no call in
                       \* progress; "done": a call has returned
    endpoint,          \* the operation that produced the current result
    pillar_scores,     \* the pillar_scores argument of evaluate_startup_comprehensive
    data,              \* its data argument (metrics.dict() in the endpoints; the
                       \* request body when StartupMetrics rejects it)
    base_probability,  \* its base_probability argument
    evaluation,        \* the dict it returned
    opinions,          \* what the model families returned for the request
    response,          \* the endpoint's response (success_probability, ...)
    rate_limit_storage,\* the module global: client_id -> admitted timestamps
    clock,             \* what time.time() returns
    limited,           \* the call of rate_limit's wrapper made for the request
                       \* at hand: its client_id, its current_time, whether it
                       \* raised, whether it is the call predict_advanced makes
    admitted,          \* client_id -> the times at which its requests were admitted
    last_call,         \* client_id -> the wrapper's last call of the client's
                       \* requests before the one at hand: None, or <<call>>
    DNA_ANALYZER,      \* the module globals of the optional models:
    TEMPORAL_MODEL,    \* None, or <<"loaded">>, or <<"unloaded">> (constructed,
    INDUSTRY_MODEL,    \* its load raised)
    load_raised        \* the optional models whose load raised at startup

vars == <<STAGE_MODEL, PILLAR_MODELS, remembered, seen, pc, endpoint,
          pillar_scores, data, base_probability, evaluation, opinions, response,
          rate_limit_storage, clock, limited, admitted, last_call,
          DNA_ANALYZER, TEMPORAL_MODEL, INDUSTRY_MODEL, load_raised>>

\* The module globals a request reads and never assigns.
models == <<STAGE_MODEL, PILLAR_MODELS>>

\* The rate limiter's state and its observer's record.
limiter == <<rate_limit_storage, clock, limited, admitted, last_call>>

\* The optional models' globals and the record of their loads.
optional == <<DNA_ANALYZER, TEMPORAL_MODEL, INDUSTRY_MODEL, load_raised>>

\* What a call of a handler's body leaves alone: the loaded models, the
\* limiter's state and the observer's records.
kept == <<models, limiter, optional, remembered, seen>>

----------------------------------------------------------------------------
(* Bounds of the model. *)

\* The score grid holds 0, 1000 and GridLow + k*GridStep for k in 0..GridPoints.
GridPoints == 6

\* The number of calls followed after a call has been remembered.
MaxBetween == 2

----------------------------------------------------------------------------
(* Program constants. *)

\* ['capital', 'advantage', 'market', 'people']: the order in which predict
\* fills pillar_scores, hence the iteration order of every dict derived from it.
PillarOrder == <<"capital", "advantage", "market", "people">>

Pillars == {PillarOrder[i] : i \in 1..Len(PillarOrder)}

\* 1.0, 0.45, 0.55 and 0.65 in thousandths.
One == 1000
FailCap == 450
PassFloor == 550
ConditionalCap == 650

\* The weighted-score bars 0.6, 0.55 and 0.5 in millionths.
PassBar == 600000
ModerateBar == 550000
WeakBar == 500000

\* dict.get(key, default)
Get(d, key, default) == IF key \in DOMAIN d THEN d[key] ELSE default

Min(a, b) == IF a <= b THEN a ELSE b
Max(a, b) == IF a >= b THEN a ELSE b

\* The subsequence of seq whose elements satisfy Test, in order
\* (a list comprehension with a condition).
RECURSIVE SelectInOrder(_, _)
SelectInOrder(seq, keep) ==
    IF seq = <<>> THEN <<>>
    ELSE (IF Head(seq) \in keep THEN <<Head(seq)>> ELSE <<>>)
             \o SelectInOrder(Tail(seq), keep)

\* sum(f[k] for k in seq)
RECURSIVE SumSeq(_, _)
SumSeq(f, seq) ==
    IF seq = <<>> THEN 0 ELSE f[Head(seq)] + SumSeq(f, Tail(seq))

\* The keys of a pillar dict in its iteration order.
KeysInOrder(d) == SelectInOrder(PillarOrder, DOMAIN d)

----------------------------------------------------------------------------
(* get_stage_weights, get_stage_thresholds *)

\* A variant whose pre-seed row gives people 0.40 (the row sums to 1.05).
StageWeightTable_heavy_people ==
    [ Pre_seed |-> [capital |-> 150, advantage |-> 300, market |-> 200, people |-> 400],
      Seed     |-> [capital |-> 200, advantage |-> 300, market |-> 250, people |-> 250],
      Series_A |-> [capital |-> 250, advantage |-> 250, market |-> 300, people |-> 200],
      Series_B |-> [capital |-> 250, advantage |-> 250, market |-> 300, people |-> 200],
      Series_C |-> [capital |-> 300, advantage |-> 200, market |-> 300, people |-> 200] ]

StageWeightTable ==
    [ Pre_seed |-> [capital |-> 150, advantage |-> 300, market |-> 200, people |-> 350],
      Seed     |-> [capital |-> 200, advantage |-> 300, market |-> 250, people |-> 250],
      Series_A |-> [capital |-> 250, advantage |-> 250, market |-> 300, people |-> 200],
      Series_B |-> [capital |-> 250, advantage |-> 250, market |-> 300, people |-> 200],
      Series_C |-> [capital |-> 300, advantage |-> 200, market |-> 300, people |-> 200] ]

StageThresholdTable ==
    [ Pre_seed |-> [capital |-> 300, advantage |-> 400, market |-> 300, people |-> 500],
      Seed     |-> [capital |-> 350, advantage |-> 450, market |-> 400, people |-> 500],
      Series_A |-> [capital |-> 450, advantage |-> 500, market |-> 500, people |-> 450],
      Series_B |-> [capital |-> 500, advantage |-> 550, market |-> 550, people |-> 500],
      Series_C |-> [capital |-> 550, advantage |-> 600, market |-> 600, people |-> 550] ]

\* A variant whose default is the first row of the table.
StageRow_first_row(funding_stage) ==
    CASE funding_stage = "Pre-seed" -> "Pre_seed"
      [] funding_stage = "Seed"     -> "Seed"
      [] funding_stage = "Series A" -> "Series_A"
      [] funding_stage = "Series B" -> "Series_B"
      [] funding_stage = "Series C" -> "Series_C"
      [] OTHER                      -> "Pre_seed"

\* The keys of the two tables as the code spells them.
StageRow(funding_stage) ==
    CASE funding_stage = "Pre-seed" -> "Pre_seed"
      [] funding_stage = "Seed"     -> "Seed"
      [] funding_stage = "Series A" -> "Series_A"
      [] funding_stage = "Series B" -> "Series_B"
      [] funding_stage = "Series C" -> "Series_C"
      [] OTHER                      -> "Seed"   \* weights.get(funding_stage, weights["Seed"])

get_stage_weights(funding_stage) == StageWeightTable[StageRow(funding_stage)]

\* A variant with a cache that serves the seed row once a call is remembered.
get_stage_thresholds_warm(funding_stage) ==
    IF "none" \in DOMAIN remembered
    THEN StageThresholdTable[StageRow(funding_stage)]
    ELSE StageThresholdTable["Seed"]

get_stage_thresholds(funding_stage) == StageThresholdTable[StageRow(funding_stage)]

----------------------------------------------------------------------------
(* check_critical_failures *)

RunwayFailure == "Less than 3 months runway - immediate funding required"
BurnFailure == "Burning >5x revenue - unsustainable burn rate"
ConcentrationFailure == "Over 80% customer concentration - extreme dependency risk"
ChurnFailure == "Monthly churn >20% - severe retention crisis"
FounderFailure == "Single founder with high key person risk"

\* if <cond>: failures.append(msg)
AppendIf(failures, cond, msg) == IF cond THEN Append(failures, msg) ELSE failures

\* A variant that returns at the first rule that holds.
check_critical_failures_first_hit(d) ==
    IF Get(d, "runway_months", 0) < 3 THEN <<RunwayFailure>>
    ELSE IF Get(d, "burn_multiple", 0) > 5 THEN <<BurnFailure>>
    ELSE IF Get(d, "customer_concentration_percent", 0) > 80 THEN <<ConcentrationFailure>>
    ELSE IF Get(d, "churn_rate", 0) > 20 THEN <<ChurnFailure>>
    ELSE IF Get(d, "founders_count", 1) = 1 /\ Get(d, "key_person_dependency", TRUE)
         THEN <<FounderFailure>>
    ELSE <<>>

check_critical_failures(d) ==
    LET f0 == <<>>
        f1 == AppendIf(f0, Get(d, "runway_months", 0) < 3, RunwayFailure)
        f2 == AppendIf(f1, Get(d, "burn_multiple", 0) > 5, BurnFailure)
        f3 == AppendIf(f2, Get(d, "customer_concentration_percent", 0) > 80,
                       ConcentrationFailure)
        f4 == AppendIf(f3, Get(d, "churn_rate", 0) > 20, ChurnFailure)
        f5 == AppendIf(f4, Get(d, "founders_count", 1) = 1
                             /\ Get(d, "key_person_dependency", TRUE),
                       FounderFailure)
    IN  f5

----------------------------------------------------------------------------
(* calculate_risk_adjusted_score *)

\* ['Tier 1', 'Tier 2']: the spellings the capital rule compares with.
TopTiers == {"Tier 1", "Tier 2"}

\* if <cond>: adjusted += delta
AddIf(adjusted, cond, delta) == IF cond THEN adjusted + delta ELSE adjusted

\* A variant in which only the first rule of a pillar that holds is applied.
RiskFactors_first_match(adjusted, pillar_name, d) ==
    IF pillar_name = "market" THEN
        IF Get(d, "customer_concentration_percent", 0) > 50 THEN adjusted - 100
        ELSE IF Get(d, "regulatory_risk_score", 0) > 4 THEN adjusted - 150
        ELSE IF Get(d, "competition_intensity", 0) >= 4 THEN adjusted - 50
        ELSE adjusted
    ELSE IF pillar_name = "capital" THEN
        IF Get(d, "has_debt", FALSE) /\ Get(d, "debt_to_equity_ratio", 0) > 2
        THEN adjusted - 100
        ELSE IF Get(d, "investor_tier_primary", "None") \notin TopTiers THEN adjusted - 50
        ELSE adjusted
    ELSE IF pillar_name = "advantage" THEN
        IF ~Get(d, "network_effects_present", FALSE) THEN adjusted - 50
        ELSE IF Get(d, "switching_cost_score", 0) < 3 THEN adjusted - 50
        ELSE adjusted
    ELSE IF pillar_name = "people" THEN
        IF Get(d, "prior_successful_exits_count", 0) = 0 THEN adjusted - 50
        ELSE IF Get(d, "team_diversity_percent", 0) < 20 THEN adjusted - 50
        ELSE adjusted
    ELSE adjusted

\* The if/elif chain of negative adjustments.
RiskFactors(adjusted, pillar_name, d) ==
    IF pillar_name = "market" THEN
        LET a1 == AddIf(adjusted, Get(d, "customer_concentration_percent", 0) > 50, -100)
            a2 == AddIf(a1, Get(d, "regulatory_risk_score", 0) > 4, -150)
            a3 == AddIf(a2, Get(d, "competition_intensity", 0) >= 4, -50)
        IN  a3
    ELSE IF pillar_name = "capital" THEN
        LET a1 == AddIf(adjusted, Get(d, "has_debt", FALSE)
                                    /\ Get(d, "debt_to_equity_ratio", 0) > 2, -100)
            a2 == AddIf(a1, Get(d, "investor_tier_primary", "None") \notin TopTiers, -50)
        IN  a2
    ELSE IF pillar_name = "advantage" THEN
        LET a1 == AddIf(adjusted, ~Get(d, "network_effects_present", FALSE), -50)
            a2 == AddIf(a1, Get(d, "switching_cost_score", 0) < 3, -50)
        IN  a2
    ELSE IF pillar_name = "people" THEN
        LET a1 == AddIf(adjusted, Get(d, "prior_successful_exits_count", 0) = 0, -50)
            a2 == AddIf(a1, Get(d, "team_diversity_percent", 0) < 20, -50)
        IN  a2
    ELSE adjusted

\* The three independent ifs of positive adjustments.
PositiveFactors(adjusted, pillar_name, d) ==
    LET a1 == AddIf(adjusted, pillar_name = "advantage"
                                /\ Get(d, "patent_count", 0) > 5, 50)
        a2 == AddIf(a1, pillar_name = "market"
                          /\ Get(d, "net_dollar_retention_percent", 0) > 130, 100)
        a3 == AddIf(a2, pillar_name = "people"
                          /\ Get(d, "prior_successful_exits_count", 0) > 1, 100)
    IN  a3

\* max(0, min(1, adjusted))
Clamp01(adjusted) == Max(0, Min(One, adjusted))

calculate_risk_adjusted_score(base_score, pillar_name, d) ==
    Clamp01(PositiveFactors(RiskFactors(base_score, pillar_name, d), pillar_name, d))

----------------------------------------------------------------------------
(* evaluate_startup_comprehensive *)

\* A variant that tests the critical failures after the PASS row.
Classify_pass_first(critical_failures, below_threshold, weighted_score) ==
    IF Len(below_threshold) = 0 /\ weighted_score >= PassBar THEN
        [verdict |-> "PASS", risk_level |-> "Low Risk", strength |-> "STRONG"]
    ELSE IF critical_failures # <<>> THEN
        [verdict |-> "FAIL", risk_level |-> "Critical Risk", strength |-> "CRITICAL"]
    ELSE IF Len(below_threshold) <= 1 /\ weighted_score >= ModerateBar THEN
        [verdict |-> "CONDITIONAL PASS", risk_level |-> "Medium Risk",
         strength |-> "MODERATE"]
    ELSE IF weighted_score >= WeakBar /\ Len(below_threshold) <= 2 THEN
        [verdict |-> "CONDITIONAL PASS", risk_level |-> "Medium-High Risk",
         strength |-> "WEAK"]
    ELSE
        [verdict |-> "FAIL", risk_level |-> "High Risk", strength |-> "WEAK"]

\* A variant that tests the two CONDITIONAL PASS rows in the other order.
Classify_weak_first(critical_failures, below_threshold, weighted_score) ==
    IF critical_failures # <<>> THEN
        [verdict |-> "FAIL", risk_level |-> "Critical Risk", strength |-> "CRITICAL"]
    ELSE IF Len(below_threshold) = 0 /\ weighted_score >= PassBar THEN
        [verdict |-> "PASS", risk_level |-> "Low Risk", strength |-> "STRONG"]
    ELSE IF weighted_score >= WeakBar /\ Len(below_threshold) <= 2 THEN
        [verdict |-> "CONDITIONAL PASS", risk_level |-> "Medium-High Risk",
         strength |-> "WEAK"]
    ELSE IF Len(below_threshold) <= 1 /\ weighted_score >= ModerateBar THEN
        [verdict |-> "CONDITIONAL PASS", risk_level |-> "Medium Risk",
         strength |-> "MODERATE"]
    ELSE
        [verdict |-> "FAIL", risk_level |-> "High Risk", strength |-> "WEAK"]

\* A variant whose third row answers PASS with the strength MODERATE.
Classify_pass_moderate(critical_failures, below_threshold, weighted_score) ==
    IF critical_failures # <<>> THEN
        [verdict |-> "FAIL", risk_level |-> "Critical Risk", strength |-> "CRITICAL"]
    ELSE IF Len(below_threshold) = 0 /\ weighted_score >= PassBar THEN
        [verdict |-> "PASS", risk_level |-> "Low Risk", strength |-> "STRONG"]
    ELSE IF Len(below_threshold) <= 1 /\ weighted_score >= ModerateBar THEN
        [verdict |-> "PASS", risk_level |-> "Medium Risk", strength |-> "MODERATE"]
    ELSE IF weighted_score >= WeakBar /\ Len(below_threshold) <= 2 THEN
        [verdict |-> "CONDITIONAL PASS", risk_level |-> "Medium-High Risk",
         strength |-> "WEAK"]
    ELSE
        [verdict |-> "FAIL", risk_level |-> "High Risk", strength |-> "WEAK"]

\* A variant whose CONDITIONAL PASS / WEAK row takes exactly two pillars below
\* their thresholds.
Classify_exactly_two_below(critical_failures, below_threshold, weighted_score) ==
    IF critical_failures # <<>> THEN
        [verdict |-> "FAIL", risk_level |-> "Critical Risk", strength |-> "CRITICAL"]
    ELSE IF Len(below_threshold) = 0 /\ weighted_score >= PassBar THEN
        [verdict |-> "PASS", risk_level |-> "Low Risk", strength |-> "STRONG"]
    ELSE IF Len(below_threshold) <= 1 /\ weighted_score >= ModerateBar THEN
        [verdict |-> "CONDITIONAL PASS", risk_level |-> "Medium Risk",
         strength |-> "MODERATE"]
    ELSE IF weighted_score >= WeakBar /\ Len(below_threshold) = 2 THEN
        [verdict |-> "CONDITIONAL PASS", risk_level |-> "Medium-High Risk",
         strength |-> "WEAK"]
    ELSE
        [verdict |-> "FAIL", risk_level |-> "High Risk", strength |-> "WEAK"]

\* Step 6: verdict, risk_level and strength.
Classify(critical_failures, below_threshold, weighted_score) ==
    IF critical_failures # <<>> THEN
        [verdict |-> "FAIL", risk_level |-> "Critical Risk", strength |-> "CRITICAL"]
    ELSE IF Len(below_threshold) = 0 /\ weighted_score >= PassBar THEN
        [verdict |-> "PASS", risk_level |-> "Low Risk", strength |-> "STRONG"]
    ELSE IF Len(below_threshold) <= 1 /\ weighted_score >= ModerateBar THEN
        [verdict |-> "CONDITIONAL PASS", risk_level |-> "Medium Risk",
         strength |-> "MODERATE"]
    ELSE IF weighted_score >= WeakBar /\ Len(below_threshold) <= 2 THEN
        [verdict |-> "CONDITIONAL PASS", risk_level |-> "Medium-High Risk",
         strength |-> "WEAK"]
    ELSE
        [verdict |-> "FAIL", risk_level |-> "High Risk", strength |-> "WEAK"]

\* A variant whose CONDITIONAL PASS branch only caps the probability.
AdjustProbability_cap_only(verdict, base) ==
    IF verdict = "FAIL" THEN Min(base, FailCap)
    ELSE IF verdict = "CONDITIONAL PASS" THEN Min(base, ConditionalCap)
    ELSE Max(PassFloor, base)

\* Step 7: the probability reconciled with the verdict.
AdjustProbability(verdict, base) ==
    IF verdict = "FAIL" THEN Min(base, FailCap)
    ELSE IF verdict = "CONDITIONAL PASS" THEN Max(FailCap, Min(base, ConditionalCap))
    ELSE Max(PassFloor, base)

\* A variant that counts a score equal to its threshold as below it.
BelowThreshold_or_equal(adjusted_scores, thresholds) ==
    SelectInOrder(KeysInOrder(adjusted_scores),
                  {pillar \in DOMAIN adjusted_scores :
                      adjusted_scores[pillar] <= thresholds[pillar]})

\* Step 4: the pillars below their stage threshold, in the dict's order.
BelowThreshold(adjusted_scores, thresholds) ==
    SelectInOrder(KeysInOrder(adjusted_scores),
                  {pillar \in DOMAIN adjusted_scores :
                      adjusted_scores[pillar] < thresholds[pillar]})

\* Step 5: sum(adjusted_scores[pillar] * weights[pillar] for pillar in adjusted_scores)
WeightedScore(adjusted_scores, weights) ==
    SumSeq([pillar \in DOMAIN adjusted_scores |->
               adjusted_scores[pillar] * weights[pillar]],
           KeysInOrder(adjusted_scores))

evaluate_startup_comprehensive(scores, d, base) ==
    LET funding_stage == Get(d, "funding_stage", "Seed")
        critical_failures == check_critical_failures(d)
        adjusted_scores ==
            [pillar \in DOMAIN scores |->
                calculate_risk_adjusted_score(scores[pillar], pillar, d)]
        weights == get_stage_weights(funding_stage)
        thresholds == get_stage_thresholds(funding_stage)
        below_threshold == BelowThreshold(adjusted_scores, thresholds)
        weighted_score == WeightedScore(adjusted_scores, weights)
        class == Classify(critical_failures, below_threshold, weighted_score)
    IN  [ verdict                |-> class.verdict,
          strength               |-> class.strength,
          risk_level             |-> class.risk_level,
          adjusted_probability   |-> AdjustProbability(class.verdict, base),
          weighted_score         |-> weighted_score,
          adjusted_pillar_scores |-> adjusted_scores,
          below_threshold        |-> below_threshold,
          critical_failures      |-> critical_failures,
          stage_weights          |-> weights,
          stage_thresholds       |-> thresholds ]

----------------------------------------------------------------------------
(* generate_insights *)

\* An insight is <<template, args>>: the arguments of str.format are kept
\* beside the template instead of being printed into it.  The emoji that
\* open the texts are left out of the strings.
Insight(text) == <<text, <<>>>>
InsightOf(template, value) == <<template, <<value>>>>

RunwayCritical ==
    Insight("CRITICAL: Less than 6 months runway - immediate funding needed")
RunwayWarning == Insight("Warning: Runway below 12 months - plan next raise")
HighBurn == Insight("High burn multiple - improve capital efficiency")

StrongInsight ==
    [ capital   |-> Insight("Strong capital position with healthy metrics"),
      advantage |-> Insight("Strong competitive moat and differentiation"),
      market    |-> Insight("Excellent market fit and positioning"),
      people    |-> Insight("World-class team with proven experience") ]

WeakInsight ==
    [ capital   |-> Insight("Capital concerns - focus on fundraising or revenue"),
      advantage |-> Insight("Weak competitive position - build differentiation"),
      market    |-> Insight("Market challenges - improve PMF and retention"),
      people    |-> Insight("Team gaps - hire senior talent or advisors") ]

Hypergrowth(v) == InsightOf("Hypergrowth: {}% YoY revenue growth", v)
StrongGrowth(v) == InsightOf("Strong growth: {}% YoY revenue growth", v)
ExcellentNDR(v) == InsightOf("Excellent NDR: {}% - strong expansion revenue", v)
OutstandingRetention(v) == InsightOf("Outstanding product retention: {}% at 30 days", v)
HighConcentration(v) == InsightOf("High customer concentration risk: {}%", v)
HighChurn(v) == InsightOf("High churn rate: {}% monthly", v)

\* A variant that returns the whole list.
FirstSix_whole_list(insights) == insights

\* insights[:6]
FirstSix(insights) == SubSeq(insights, 1, Min(6, Len(insights)))

\* The statement of one pillar: pillar_scores.get(pillar, 0) against 0.7 and 0.3.
PillarInsight(scores, pillar) ==
    IF Get(scores, pillar, 0) > 700 THEN <<StrongInsight[pillar]>>
    ELSE IF Get(scores, pillar, 0) < 300 THEN <<WeakInsight[pillar]>>
    ELSE <<>>

\* product_retention_30d is in thousandths; int(x * 100) is x \div 10.
generate_insights(d, prediction, scores) ==
    LET runway == IF d.runway_months < 6 THEN <<RunwayCritical>>
                  ELSE IF d.runway_months < 12 THEN <<RunwayWarning>>
                  ELSE <<>>
        burn == IF d.burn_multiple > 5 THEN <<HighBurn>> ELSE <<>>
        \* if pillar_scores: an empty dict adds no statement
        pillars == IF DOMAIN scores # {}
                   THEN PillarInsight(scores, "capital")
                            \o PillarInsight(scores, "advantage")
                            \o PillarInsight(scores, "market")
                            \o PillarInsight(scores, "people")
                   ELSE <<>>
        growth == IF d.revenue_growth_rate_percent > 150
                  THEN <<Hypergrowth(d.revenue_growth_rate_percent)>>
                  ELSE IF d.revenue_growth_rate_percent > 100
                  THEN <<StrongGrowth(d.revenue_growth_rate_percent)>>
                  ELSE <<>>
        ndr == IF d.net_dollar_retention_percent > 120
               THEN <<ExcellentNDR(d.net_dollar_retention_percent)>>
               ELSE <<>>
        retention == IF d.product_retention_30d > 800
                     THEN <<OutstandingRetention(d.product_retention_30d \div 10)>>
                     ELSE <<>>
        concentration == IF d.customer_concentration_percent > 50
                         THEN <<HighConcentration(d.customer_concentration_percent)>>
                         ELSE <<>>
        churn == IF Get(d, "churn_rate", 0) > 10
                 THEN <<HighChurn(Get(d, "churn_rate", 0))>>
                 ELSE <<>>
    IN  FirstSix(runway \o burn \o pillars \o growth \o ndr \o retention
                     \o concentration \o churn)

----------------------------------------------------------------------------
(* generate_recommendation *)

\* The emoji that open the texts are left out; the bullet glyph is "*".
detailed_recs ==
    [ capital |->
        [ critical |-> "URGENT: Raise funding immediately or drastically cut burn. Target 18+ months runway.",
          weak     |-> "Extend runway to 18+ months. Focus on revenue growth or raise bridge round.",
          improve  |-> "Optimize burn rate and improve unit economics for next funding round." ],
      advantage |->
        [ critical |-> "Build defensibility NOW: file patents, create network effects, or develop proprietary tech.",
          weak     |-> "Strengthen moat: increase switching costs and build deeper technical differentiation.",
          improve  |-> "Enhance competitive position through product innovation and brand building." ],
      market |->
        [ critical |-> "Fix product-market fit urgently. Consider pivot if retention < 40% at 30 days.",
          weak     |-> "Improve retention metrics and reduce customer concentration below 30%.",
          improve  |-> "Expand market share and improve net dollar retention above 120%." ],
      people |->
        [ critical |-> "Hire senior talent immediately. Add experienced advisors in your domain.",
          weak     |-> "Strengthen leadership team and add board members with relevant exits.",
          improve  |-> "Scale team thoughtfully while maintaining culture and expertise." ] ]

Bullet(text) == "* " \o text
Optimize(text) == "OPTIMIZE: " \o text

\* A variant whose 'Solid foundation' band starts at 0.45.
Headline_solid_from_045(probability) ==
    IF probability >= 750 THEN "STRONG POSITION! Ready to scale aggressively."
    ELSE IF probability >= 450 THEN "Solid foundation with clear growth path."
    ELSE IF probability >= 300 THEN "Moderate risk - focus on key improvements."
    ELSE IF probability >= 150 THEN "Significant challenges - immediate action required."
    ELSE "CRITICAL: Major pivot or restructuring needed."

\* The overall assessment by the band of the probability.
Headline(probability) ==
    IF probability >= 750 THEN "STRONG POSITION! Ready to scale aggressively."
    ELSE IF probability >= 600 THEN "Solid foundation with clear growth path."
    ELSE IF probability >= 450 THEN "Moderate risk - focus on key improvements."
    ELSE IF probability >= 300 THEN "Significant challenges - immediate action required."
    ELSE "CRITICAL: Major pivot or restructuring needed."

\* The pillars below 0.3, and those in [0.3, 0.5), in the dict's order.
critical_pillars(scores) ==
    SelectInOrder(KeysInOrder(scores), {p \in DOMAIN scores : scores[p] < 300})
weak_pillars(scores) ==
    SelectInOrder(KeysInOrder(scores),
                  {p \in DOMAIN scores : 300 <= scores[p] /\ scores[p] < 500})

\* seq[:2]
FirstTwo(seq) == SubSeq(seq, 1, Min(2, Len(seq)))

\* min(pillar_scores, key=pillar_scores.get): the first key, in the dict's
\* order, whose score is the least.
Weakest(scores) ==
    Head(SelectInOrder(KeysInOrder(scores),
            {p \in DOMAIN scores : \A q \in DOMAIN scores : scores[p] <= scores[q]}))

\* The statements of the pillars in seq, of one kind.
Statements(seq, kind) == [i \in 1..Len(seq) |-> Bullet(detailed_recs[seq[i]][kind])]

\* A variant whose weak areas follow the critical issues (if, not elif).
PillarParts_critical_and_weak(probability, scores) ==
    (IF critical_pillars(scores) # <<>>
     THEN <<"CRITICAL FIXES:">> \o Statements(FirstTwo(critical_pillars(scores)), "critical")
     ELSE <<>>)
    \o
    (IF weak_pillars(scores) # <<>>
     THEN <<"PRIORITY IMPROVEMENTS:">> \o Statements(FirstTwo(weak_pillars(scores)), "weak")
     ELSE IF critical_pillars(scores) = <<>> /\ probability >= 600
     THEN <<Optimize(detailed_recs[Weakest(scores)].improve)>>
     ELSE <<>>)

\* Critical issues first, then weak areas, then optimisation.
PillarParts(probability, scores) ==
    IF critical_pillars(scores) # <<>>
    THEN <<"CRITICAL FIXES:">> \o Statements(FirstTwo(critical_pillars(scores)), "critical")
    ELSE IF weak_pillars(scores) # <<>>
    THEN <<"PRIORITY IMPROVEMENTS:">> \o Statements(FirstTwo(weak_pillars(scores)), "weak")
    ELSE IF probability >= 600
    THEN <<Optimize(detailed_recs[Weakest(scores)].improve)>>
    ELSE <<>>

\* sep.join(seq)
RECURSIVE JoinWith(_, _)
JoinWith(seq, sep) ==
    IF seq = <<>> THEN ""
    ELSE IF Len(seq) = 1 THEN seq[1]
    ELSE seq[1] \o sep \o JoinWith(Tail(seq), sep)

\* The metric targets; product_retention_30d is in thousandths.
targets(d) ==
    (IF Get(d, "runway_months", 0) < 18 THEN <<"runway 18+ months">> ELSE <<>>)
    \o (IF Get(d, "net_dollar_retention_percent", 0) < 110 THEN <<"NDR >110%">> ELSE <<>>)
    \o (IF Get(d, "product_retention_30d", 0) < 600 THEN <<"30d retention >60%">> ELSE <<>>)

TargetParts(d) ==
    IF DOMAIN d # {} /\ targets(d) # <<>>
    THEN <<"KEY TARGETS: " \o JoinWith(targets(d), ", ")>>
    ELSE <<>>

\* The list the function joins.
rec_parts(probability, scores, d) ==
    <<Headline(probability)>> \o PillarParts(probability, scores) \o TargetParts(d)

generate_recommendation(probability, scores, d) ==
    JoinWith(rec_parts(probability, scores, d), " ")

----------------------------------------------------------------------------
(* The inputs the calls are checked on.  Every numeric field takes the     *)
(* values on both sides of each bar the code compares it with.             *)

\* A raw-metrics dict on which no rule of the engine fires.
QuietData ==
    [ funding_stage                  |-> "Seed",
      runway_months                  |-> 12,
      burn_multiple                  |-> 1,
      customer_concentration_percent |-> 10,
      founders_count                 |-> 2,
      key_person_dependency          |-> FALSE,
      competition_intensity          |-> 3,
      net_dollar_retention_percent   |-> 100,
      has_debt                       |-> FALSE,
      investor_tier_primary          |-> "Tier 1",
      network_effects_present        |-> TRUE,
      switching_cost_score           |-> 3,
      patent_count                   |-> 0,
      prior_successful_exits_count   |-> 1,
      team_diversity_percent         |-> 30,
      revenue_growth_rate_percent    |-> 50,
      product_retention_30d          |-> 700 ]

\* The dict with no key.
NoKeys == [k \in {} |-> 0]

\* The dicts {key: v} for v in values, and the empty dict when the key may
\* be absent (churn_rate, regulatory_risk_score and debt_to_equity_ratio are
\* no fields of StartupMetrics).
Optional(key, values) == {NoKeys} \cup {[k \in {key} |-> v] : v \in values}

\* The stage strings: the keys of the tables, the spellings the request
\* schema accepts, and a string that is neither.
TableStages == {"Pre-seed", "Seed", "Series A", "Series B", "Series C"}
SchemaStages == {"pre_seed", "seed", "series_a", "series_b", "series_c", "growth"}
UnknownStage == "unicorn_plus"

\* The tier strings: the spellings the capital rule compares with and the
\* spellings the request schema accepts.
SchemaTiers == {"tier_1", "tier_2", "tier_3", "none"}
AllTiers == TopTiers \cup SchemaTiers

\* Scores around every stage threshold (0.30 .. 0.60), and the two ends.
ScoreGrid == {0, One} \cup {300 + 50 * k : k \in 0..GridPoints}

\* Uniform score sets.
Uniform(s) == [pillar \in Pillars |-> s]

\* Base scores in steps of 0.05 over [0,1].
FineScores == {50 * k : k \in 0..20}

\* Probabilities on both sides of 0.45, 0.55 and 0.65, and the two ends.
ProbGrid == {0, 449, 450, 451, 549, 550, 551, 649, 650, 651, One}

\* Probabilities a model family returns, in steps of 0.05 (so that the 60/40
\* blend of two of them is a whole number of thousandths).
ModelProbs == {0, 300, 450, 500, 800, One}

\* Dicts that differ from QuietData in the fields check_critical_failures reads.
CriticalData ==
    { opt @@ [QuietData EXCEPT !.funding_stage = st,
                               !.runway_months = r,
                               !.burn_multiple = b,
                               !.customer_concentration_percent = c,
                               !.founders_count = f,
                               !.key_person_dependency = k] :
        st \in {"Seed", "Series C"}, r \in {2, 3}, b \in {5, 6}, c \in {80, 81},
        f \in {1, 2}, k \in BOOLEAN, opt \in Optional("churn_rate", {20, 21}) }

\* Dicts that differ from QuietData in the fields one pillar's rules read.
MarketData ==
    { opt @@ [QuietData EXCEPT !.customer_concentration_percent = c,
                               !.competition_intensity = i,
                               !.net_dollar_retention_percent = n] :
        c \in {50, 51}, i \in {3, 4}, n \in {130, 131},
        opt \in Optional("regulatory_risk_score", {4, 5}) }

CapitalData ==
    { opt @@ [QuietData EXCEPT !.has_debt = h, !.investor_tier_primary = t] :
        h \in BOOLEAN, t \in AllTiers,
        opt \in Optional("debt_to_equity_ratio", {2, 3}) }

AdvantageData ==
    { [QuietData EXCEPT !.network_effects_present = n,
                        !.switching_cost_score = s,
                        !.patent_count = p] :
        n \in BOOLEAN, s \in {2, 3}, p \in {5, 6} }

PeopleData ==
    { [QuietData EXCEPT !.prior_successful_exits_count = e,
                        !.team_diversity_percent = v] :
        e \in {0, 1, 2}, v \in {19, 20} }

\* Dicts in which rules of several pillars fire together.
MixedData ==
    { [QuietData EXCEPT !.customer_concentration_percent = IF m THEN 51 ELSE 50,
                        !.competition_intensity = IF m THEN 4 ELSE 3,
                        !.net_dollar_retention_percent = IF a THEN 131 ELSE 130,
                        !.investor_tier_primary = IF c THEN "tier_3" ELSE "Tier 2",
                        !.network_effects_present = ~a,
                        !.switching_cost_score = IF a THEN 2 ELSE 3,
                        !.patent_count = IF m THEN 6 ELSE 5,
                        !.prior_successful_exits_count = IF e THEN 0 ELSE 2,
                        !.team_diversity_percent = IF c THEN 19 ELSE 20] :
        m \in BOOLEAN, c \in BOOLEAN, a \in BOOLEAN, e \in BOOLEAN }

\* What StartupMetrics admits and metrics.dict() then holds, in the fields the
\* engine reads: the schema's stage and tier spellings, and no churn_rate,
\* regulatory_risk_score or debt_to_equity_ratio key.
SchemaMetrics ==
    { [QuietData EXCEPT !.funding_stage = st,
                        !.investor_tier_primary = t,
                        !.has_debt = h,
                        !.runway_months = r] :
        st \in SchemaStages, t \in SchemaTiers, h \in BOOLEAN, r \in {2, 12} }

\* The metrics of the requests checked for what happens around the
\* evaluation (the limiter, the optional models).
LimitedMetrics ==
    {m \in SchemaMetrics : /\ m.funding_stage = "seed" /\ m.runway_months = 12
                           /\ m.investor_tier_primary = "tier_1" /\ ~m.has_debt}

\* An optional value (None or a float): the empty sequence or <<v>>.
None == <<>>
Maybe(values) == {None} \cup {<<v>> : v \in values}

\* What the global of an optional model holds besides None: the instance
\* after its load, or the instance as its constructor left it.
Loaded == <<"loaded">>
Unloaded == <<"unloaded">>

----------------------------------------------------------------------------
(* The endpoints *)

\* predict, from the base prediction on: the 60/40 blend with the stage model
\* when it answers, the evaluation, and the response built from it.
\* StageBlend_even is a variant that blends the two half and half.
StageBlend_even(stage_proba, base_prediction) ==
    IF stage_proba # None
    THEN (5 * stage_proba[1] + 5 * base_prediction) \div 10
    ELSE base_prediction

StageBlend(stage_proba, base_prediction) ==
    IF stage_proba # None
    THEN (6 * stage_proba[1] + 4 * base_prediction) \div 10
    ELSE base_prediction

\* The interval predict puts around final_prediction: 1.96 standard
\* deviations of the ensemble's predictions to either side, within [0,1].
ConfidenceInterval(final_prediction, std_dev) ==
    [ lower |-> Max(0, final_prediction - (196 * std_dev) \div 100),
      upper |-> Min(One, final_prediction + (196 * std_dev) \div 100) ]

PredictionResponse(ev, metrics, confidence_interval) ==
    [ status              |-> 200,
      success_probability |-> ev.adjusted_probability,
      confidence_interval |-> confidence_interval,
      risk_level          |-> ev.risk_level,
      key_insights        |-> generate_insights(metrics, ev.adjusted_probability,
                                                ev.adjusted_pillar_scores),
      recommendation      |-> generate_recommendation(ev.adjusted_probability,
                                                      ev.adjusted_pillar_scores, metrics),
      pillar_scores       |-> ev.adjusted_pillar_scores,
      verdict             |-> ev.verdict,
      strength            |-> ev.strength,
      weighted_score      |-> ev.weighted_score,
      critical_failures   |-> ev.critical_failures,
      below_threshold     |-> ev.below_threshold,
      stage_thresholds    |-> ev.stage_thresholds ]

\* predict_advanced of api_server.py: the standard response's fields, copied.
AdvancedPredictionResponse(standard_response, temporal_preds) ==
    [ status               |-> 200,
      success_probability  |-> standard_response.success_probability,
      pillar_scores        |-> standard_response.pillar_scores,
      verdict              |-> standard_response.verdict,
      strength             |-> standard_response.strength,
      weighted_score       |-> standard_response.weighted_score,
      stage_prediction     |-> None,
      temporal_predictions |-> temporal_preds ]

\* predict_advanced of api_integration_advanced.py: the weighted ensemble.
FusedNumerator(base_proba, stage_proba, industry_proba, temporal_medium) ==
    LET n0 == 1000 * base_proba
        n1 == IF stage_proba # None THEN n0 + stage_proba[1] * 200 ELSE n0
        n2 == IF industry_proba # None THEN n1 + industry_proba[1] * 150 ELSE n1
        n3 == IF temporal_medium # None THEN n2 + temporal_medium[1] * 100 ELSE n2
    IN  n3

\* A variant that divides by the sum of all four weights, present or not.
FusedWeightSum_all_weights(stage_proba, industry_proba, temporal_medium) ==
    1000 + 200 + 150 + 100

FusedWeightSum(stage_proba, industry_proba, temporal_medium) ==
    LET w0 == 1000
        w1 == IF stage_proba # None THEN w0 + 200 ELSE w0
        w2 == IF industry_proba # None THEN w1 + 150 ELSE w1
        w3 == IF temporal_medium # None THEN w2 + 100 ELSE w2
    IN  w3

\* round(num / den, 3) in thousandths, num and den in millionths and
\* thousandths: the nearest thousandth; on an exact tie the float's error
\* decides, so either neighbour.
Round3(num, den) ==
    LET q == num \div den
        r == num % den
    IN  IF 2 * r < den THEN {q}
        ELSE IF 2 * r > den THEN {q + 1}
        ELSE {q, q + 1}

NoCall == [none |-> TRUE]

\* The clients whose requests arrive: request.client.host, or the SHA-256 of
\* the X-API-Key header when the request carries one.
Clients == {"10.0.0.1", "10.0.0.2"}

\* rate_limit_storage = defaultdict(list): every client's record is a list,
\* empty until its first admitted call.
NoRecords == [client_id \in Clients |-> <<>>]

\* STAGE_MODEL.predict_proba(stage_data)[0, 1] of a loaded model, by the
\* funding_stage of the row: with a sub-model for the stage, whatever the
\* ensemble and the meta-model give, or an exception out of them; without
\* one, the fallback row [0.5, 0.5].
StageProbs == {500, One}
predict_proba(stage_models, funding_stage) ==
    IF funding_stage \in stage_models
    THEN {[raised |-> TRUE, proba |-> None]}
             \cup {[raised |-> FALSE, proba |-> <<p>>] : p \in StageProbs}
    ELSE {[raised |-> FALSE, proba |-> <<500>>]}

\* The stage opinion of a request: none when STAGE_MODEL is None.
StageOpinions(funding_stage) ==
    IF STAGE_MODEL = None
    THEN {[raised |-> FALSE, proba |-> None]}
    ELSE predict_proba(STAGE_MODEL[1], funding_stage)

\* What the pillar models, or the simplified formulas before their
\* normalisation to [0,1], can give.
PredictScores == {Uniform(s) : s \in {300, 500, 600, One}}
SimplifiedScores == {Uniform(s) : s \in {0 - 200, 500, 1200}}
RawScores == IF PILLAR_MODELS # {} THEN PredictScores ELSE SimplifiedScores

\* pillar_scores as predict fills it: a key for each loaded pillar model, or,
\* with no pillar model loaded, the four simplified scores normalised.
PredictPillarScores(raw) ==
    IF PILLAR_MODELS # {}
    THEN [pillar \in PILLAR_MODELS |-> raw[pillar]]
    ELSE [pillar \in Pillars |-> Min(One, Max(0, raw[pillar]))]

\* The state after a startup_event that found every model file.
Init ==
    /\ STAGE_MODEL = <<SchemaStages>>
    /\ PILLAR_MODELS = Pillars
    /\ remembered = NoCall
    /\ seen = {}
    /\ pc = "idle"
    /\ endpoint = "none"
    /\ pillar_scores = NoCall
    /\ data = NoCall
    /\ base_probability = 0
    /\ evaluation = NoCall
    /\ opinions = NoCall
    /\ response = NoCall
    /\ rate_limit_storage = NoRecords
    /\ clock = 0
    /\ limited = NoCall
    /\ admitted = NoRecords
    /\ last_call = [client_id \in Clients |-> None]
    /\ DNA_ANALYZER = Loaded
    /\ TEMPORAL_MODEL = Loaded
    /\ INDUSTRY_MODEL = Loaded
    /\ load_raised = {}

\* evaluate_startup_comprehensive(scores, d, base) is called and returns.
EvaluateCall(scores, d, base) ==
    /\ pillar_scores' = scores
    /\ data' = d
    /\ base_probability' = base
    /\ evaluation' = evaluate_startup_comprehensive(scores, d, base)
    /\ endpoint' = "evaluate"
    /\ opinions' = NoCall
    /\ response' = NoCall
    /\ pc' = "done"
    /\ UNCHANGED kept

\* A direct call of evaluate_startup_comprehensive, on one of five families
\* of arguments: every score set of the grid at every row of the stage
\* tables; every combination of critical-failure rules; every combination of
\* one pillar's adjustment rules at every base score; every verdict at every
\* base probability; scores next to the thresholds that the adjustments of
\* several pillars move across them.
Evaluate ==
    /\ pc = "idle"
    /\ \/ \E scores \in [Pillars -> ScoreGrid], st \in TableStages \cup {UnknownStage} :
            EvaluateCall(scores, [QuietData EXCEPT !.funding_stage = st], 500)
       \/ \E s \in {0, 500, One}, d \in CriticalData, base \in {0, 450, 451, One} :
            EvaluateCall(Uniform(s), d, base)
       \/ \E s \in FineScores,
             d \in MarketData \cup CapitalData \cup AdvantageData \cup PeopleData
                     \cup MixedData :
            EvaluateCall(Uniform(s), d, 500)
       \/ \E s \in {300, 500, 550, 600, One}, r \in {2, 12}, base \in ProbGrid :
            EvaluateCall(Uniform(s), [QuietData EXCEPT !.runway_months = r], base)
       \/ \E scores \in [Pillars -> {450, 500, 550}], d \in MixedData,
             st \in {"Seed", "Series A"} :
            EvaluateCall(scores, [d EXCEPT !.funding_stage = st], 500)

\* np.std of the ensemble's predictions: 0 when its models agree (or there
\* is one model), 0.05 when they differ.
EnsembleSpread == {0, 50}

\* The body of predict from the base prediction on, when nothing raises
\* outside the stage model's try block: the blend, the pillar scores, the
\* evaluation, the response.
PredictBody(metrics, raw, base_prediction, std_dev, stage) ==
    LET final_prediction == StageBlend(stage.proba, base_prediction)
        scores == PredictPillarScores(raw)
        ev == evaluate_startup_comprehensive(scores, metrics, final_prediction)
    IN  [ pillar_scores    |-> scores,
          final_prediction |-> final_prediction,
          evaluation       |-> ev,
          opinions         |-> [base |-> <<base_prediction>>, stage |-> stage.proba,
                                industry |-> None, temporal |-> None,
                                stage_raised |-> stage.raised],
          response         |-> PredictionResponse(ev, metrics,
                                   ConfidenceInterval(final_prediction, std_dev)) ]

\* An exception outside the stage model's try block (feature engineering, an
\* ensemble or pillar model): the handler answers HTTP 500.
RequestFails(metrics, name) ==
    /\ data' = metrics
    /\ pillar_scores' = NoCall
    /\ base_probability' = 0
    /\ evaluation' = NoCall
    /\ opinions' = NoCall
    /\ response' = [status |-> 500]
    /\ endpoint' = name
    /\ pc' = "done"
    /\ UNCHANGED kept

\* POST /predict (api_server.py).
Predict ==
    /\ pc = "idle"
    /\ \/ \E metrics \in SchemaMetrics, raw \in RawScores,
             base_prediction \in {300, 800}, std_dev \in EnsembleSpread :
            \E stage \in StageOpinions(metrics.funding_stage) :
                LET body == PredictBody(metrics, raw, base_prediction, std_dev, stage)
                IN  /\ pillar_scores' = body.pillar_scores
                    /\ data' = metrics
                    /\ base_probability' = body.final_prediction
                    /\ evaluation' = body.evaluation
                    /\ opinions' = body.opinions
                    /\ response' = body.response
                    /\ endpoint' = "predict"
                    /\ pc' = "done"
                    /\ UNCHANGED kept
       \/ \E metrics \in SchemaMetrics : RequestFails(metrics, "predict")

\* POST /predict_advanced (api_server.py): predict, then the temporal model.
PredictAdvanced ==
    /\ pc = "idle"
    /\ \/ \E metrics \in SchemaMetrics, raw \in RawScores,
             base_prediction \in {300, 800}, temporal_medium \in Maybe({One}) :
            \E stage \in StageOpinions(metrics.funding_stage) :
                LET body == PredictBody(metrics, raw, base_prediction, 0, stage)
                IN  /\ pillar_scores' = body.pillar_scores
                    /\ data' = metrics
                    /\ base_probability' = body.final_prediction
                    /\ evaluation' = body.evaluation
                    /\ opinions' = [body.opinions EXCEPT !.temporal = temporal_medium]
                    /\ response' = AdvancedPredictionResponse(body.response,
                                                              temporal_medium)
                    /\ endpoint' = "predict_advanced"
                    /\ pc' = "done"
                    /\ UNCHANGED kept
       \/ \E metrics \in SchemaMetrics : RequestFails(metrics, "predict_advanced")

\* The requests the fusion endpoint is checked on: every stage, with and
\* without a critical failure.
FusionMetrics ==
    {m \in SchemaMetrics : m.investor_tier_primary = "tier_1" /\ ~m.has_debt}

\* POST /predict_advanced (api_integration_advanced.py).
PredictAdvancedIntegration ==
    /\ pc = "idle"
    /\ \E metrics \in FusionMetrics, base_proba \in ModelProbs,
          stage_proba \in Maybe({0, 500, One}), industry_proba \in Maybe({0, One}),
          temporal_medium \in Maybe({0, One}) :
        \E final_proba \in Round3(
                FusedNumerator(base_proba, stage_proba, industry_proba, temporal_medium),
                FusedWeightSum(stage_proba, industry_proba, temporal_medium)) :
            /\ data' = metrics
            /\ opinions' = [base |-> <<base_proba>>, stage |-> stage_proba,
                            industry |-> industry_proba, temporal |-> temporal_medium]
            /\ response' = [ status              |-> 200,
                             success_probability |-> final_proba,
                             stage_prediction    |-> stage_proba ]
    /\ pillar_scores' = NoCall
    /\ base_probability' = 0
    /\ evaluation' = NoCall
    /\ endpoint' = "predict_advanced_integration"
    /\ pc' = "done"
    /\ UNCHANGED kept

\* The call has returned; the next one may start.
Return ==
    /\ pc = "done"
    /\ pc' = "idle"
    /\ endpoint' = "none"
    /\ pillar_scores' = NoCall
    /\ data' = NoCall
    /\ base_probability' = 0
    /\ evaluation' = NoCall
    /\ opinions' = NoCall
    /\ response' = NoCall
    /\ UNCHANGED kept

Next ==
    \/ Evaluate
    \/ Predict
    \/ PredictAdvanced
    \/ PredictAdvancedIntegration
    \/ Return

Spec == Init /\ [][Next]_vars

----------------------------------------------------------------------------
(* The server process from its start: whichever model files are there *)

\* The module globals as the import leaves them.
ServerInit ==
    /\ STAGE_MODEL = None
    /\ PILLAR_MODELS = {}
    /\ remembered = NoCall
    /\ seen = {}
    /\ pc = "startup"
    /\ endpoint = "none"
    /\ pillar_scores = NoCall
    /\ data = NoCall
    /\ base_probability = 0
    /\ evaluation = NoCall
    /\ opinions = NoCall
    /\ response = NoCall
    /\ rate_limit_storage = NoRecords
    /\ clock = 0
    /\ limited = NoCall
    /\ admitted = NoRecords
    /\ last_call = [client_id \in Clients |-> None]
    /\ DNA_ANALYZER = None
    /\ TEMPORAL_MODEL = None
    /\ INDUSTRY_MODEL = None
    /\ load_raised = {}

\* What load_stage_models can leave in STAGE_MODEL: None (no directory, or
\* an exception while loading), or a model with a sub-model for each
\* stage_* directory; training writes one for each stage with 50 samples.
StageModelFiles ==
    {None, <<SchemaStages>>, <<SchemaStages \ {"growth"}>>}

\* startup_event: load_models loads the pillar models whose file exists and
\* warns about the others; load_stage_models sets STAGE_MODEL;
\* load_advanced_models finds none of the optional models' directories and
\* leaves their globals None.
startup_event ==
    /\ pc = "startup"
    /\ \E pillar_files \in SUBSET Pillars : PILLAR_MODELS' = pillar_files
    /\ \E stage_model \in StageModelFiles : STAGE_MODEL' = stage_model
    /\ pc' = "idle"
    /\ UNCHANGED <<remembered, seen, endpoint, pillar_scores, data,
                   base_probability, evaluation, opinions, response,
                   limiter, optional>>

ServerNext ==
    \/ startup_event
    \/ Predict
    \/ Return

ServerSpec == ServerInit /\ [][ServerNext]_vars

----------------------------------------------------------------------------
(* The same call made again: a call is remembered, others follow *)

RepeatScores == {Uniform(s) : s \in {300, 600, One}}
RepeatData ==
    { [QuietData EXCEPT !.funding_stage = st, !.runway_months = r] :
        st \in {"Seed", "Series C"}, r \in {2, 12} }

\* evaluate_startup_comprehensive is called: its arguments are bound.
CallEvaluate ==
    /\ pc = "idle"
    /\ remembered # NoCall => remembered.calls_since < MaxBetween
    /\ \E scores \in RepeatScores, d \in RepeatData, base \in {300, 800} :
        /\ pillar_scores' = scores
        /\ data' = d
        /\ base_probability' = base
    /\ remembered' = IF remembered = NoCall THEN remembered
                     ELSE [remembered EXCEPT !.calls_since = @ + 1]
    /\ evaluation' = NoCall
    /\ endpoint' = "evaluate"
    /\ opinions' = NoCall
    /\ response' = NoCall
    /\ pc' = "called"
    /\ UNCHANGED <<models, limiter, optional, seen>>

\* It returns: the result is built from fresh dicts and lists; the function
\* assigns to no key of pillar_scores or data and to no global.
EvaluateReturns ==
    /\ pc = "called"
    /\ evaluation' = evaluate_startup_comprehensive(pillar_scores, data, base_probability)
    /\ pc' = "done"
    /\ UNCHANGED <<pillar_scores, data, base_probability, endpoint, opinions,
                   response, kept>>

\* The observer keeps the call that has just returned, once.
Remember ==
    /\ pc = "done"
    /\ remembered = NoCall
    /\ remembered' = [ pillar_scores    |-> pillar_scores,
                       data             |-> data,
                       base_probability |-> base_probability,
                       evaluation       |-> evaluation,
                       calls_since      |-> 0 ]
    /\ UNCHANGED <<models, limiter, optional, seen, pc, endpoint, pillar_scores, data,
                   base_probability, evaluation, opinions, response>>

RepeatNext ==
    \/ CallEvaluate
    \/ EvaluateReturns
    \/ Remember
    \/ Return

RepeatSpec == Init /\ [][RepeatNext]_vars

----------------------------------------------------------------------------
(* The outcomes of requests the schema admits, collected *)

\* Pillar scores in [0,1].
ValidScores == {Uniform(s) : s \in {300, 550, 600, One}}

\* evaluate_startup_comprehensive on pillar scores in [0,1] and metrics the
\* request schema admits; the observer adds the outcome to those seen.
EvaluateValid ==
    /\ pc = "idle"
    /\ \E scores \in ValidScores, metrics \in SchemaMetrics, base \in {500} :
        LET ev == evaluate_startup_comprehensive(scores, metrics, base)
        IN  /\ pillar_scores' = scores
            /\ data' = metrics
            /\ base_probability' = base
            /\ evaluation' = ev
            /\ seen' = seen \cup {<<ev.verdict, ev.strength>>}
    /\ endpoint' = "evaluate"
    /\ opinions' = NoCall
    /\ response' = NoCall
    /\ pc' = "done"
    /\ UNCHANGED <<models, limiter, optional, remembered>>

OutcomeNext ==
    \/ EvaluateValid
    \/ Return

OutcomeSpec == Init /\ [][OutcomeNext]_vars

----------------------------------------------------------------------------
(* generate_insights and generate_recommendation called on their own *)

\* Metrics on both sides of every bar the two functions compare with.
InsightData ==
    { opt @@ [QuietData EXCEPT !.runway_months = r,
                               !.burn_multiple = b,
                               !.revenue_growth_rate_percent = g,
                               !.net_dollar_retention_percent = n,
                               !.product_retention_30d = p,
                               !.customer_concentration_percent = c] :
        r \in {5, 6, 11, 12}, b \in {5, 6}, g \in {100, 101, 150, 151},
        n \in {120, 121}, p \in {800, 810}, c \in {50, 51},
        opt \in Optional("churn_rate", {10, 11}) }

\* Adjusted pillar scores around 0.3 and 0.7, and the empty dict.
InsightScores ==
    {NoKeys} \cup {Uniform(s) : s \in {299, 300, 700, 701}}
        \cup {[Uniform(701) EXCEPT ![pillar] = 299] : pillar \in Pillars}

TargetData ==
    { [QuietData EXCEPT !.runway_months = r,
                        !.net_dollar_retention_percent = n,
                        !.product_retention_30d = p] :
        r \in {17, 18}, n \in {109, 110}, p \in {599, 600} }

\* Adjusted pillar scores around 0.3 and 0.5, and probabilities around the
\* bars of the headline.
RecommendationScores == [Pillars -> {299, 300, 499, 500, 700}]
HeadlineProbabilities == {299, 300, 449, 450, 599, 600, 749, 750}

\* generate_insights(d, prediction, scores) is called and returns.
GenerateInsights ==
    /\ pc = "idle"
    /\ \E d \in InsightData, scores \in InsightScores, prediction \in {500} :
        /\ data' = d
        /\ pillar_scores' = scores
        /\ base_probability' = prediction
        /\ response' = [key_insights |-> generate_insights(d, prediction, scores)]
    /\ evaluation' = NoCall
    /\ opinions' = NoCall
    /\ endpoint' = "generate_insights"
    /\ pc' = "done"
    /\ UNCHANGED kept

\* generate_recommendation(probability, scores, d) is called and returns;
\* the list it joins is kept beside the string.
GenerateRecommendation ==
    /\ pc = "idle"
    /\ \E probability \in HeadlineProbabilities, scores \in RecommendationScores,
          d \in TargetData :
        /\ data' = d
        /\ pillar_scores' = scores
        /\ base_probability' = probability
        /\ response' = [rec_parts      |-> rec_parts(probability, scores, d),
                        recommendation |-> generate_recommendation(probability, scores, d)]
    /\ evaluation' = NoCall
    /\ opinions' = NoCall
    /\ endpoint' = "generate_recommendation"
    /\ pc' = "done"
    /\ UNCHANGED kept

AdviceNext ==
    \/ GenerateInsights
    \/ GenerateRecommendation
    \/ Return

AdviceSpec == Init /\ [][AdviceNext]_vars

----------------------------------------------------------------------------
(* startup_event step by step: the loads of the optional models *)

\* The optional models, by the names of their globals.
OptionalModels == {"STAGE_MODEL", "DNA_ANALYZER", "TEMPORAL_MODEL", "INDUSTRY_MODEL"}

\* What a try block of load_advanced_models meets: no directory; a directory
\* and a load that returns; a directory and a load that raises.
LoadOutcomes == {"absent", "loaded", "raised"}

\* load_models: the pillar models whose file exists are loaded; an exception
\* is logged and raised again, and startup_event ends with it.
load_models ==
    /\ pc = "startup"
    /\ \/ /\ \E pillar_files \in SUBSET Pillars : PILLAR_MODELS' = pillar_files
          /\ pc' = "load_stage_models"
       \/ /\ PILLAR_MODELS' = PILLAR_MODELS
          /\ pc' = "aborted"
    /\ UNCHANGED <<STAGE_MODEL, limiter, optional, remembered, seen, endpoint,
                   pillar_scores, data, base_probability, evaluation, opinions,
                   response>>

\* load_stage_models: without the directory STAGE_MODEL stays None; with it
\* STAGE_MODEL is the model after load_models, or None when that raised.
load_stage_models ==
    /\ pc = "load_stage_models"
    /\ \/ /\ \E stage_model \in StageModelFiles : STAGE_MODEL' = stage_model
          /\ load_raised' = load_raised
       \/ /\ STAGE_MODEL' = None
          /\ load_raised' = load_raised \cup {"STAGE_MODEL"}
    /\ pc' = "load_advanced_models"
    /\ UNCHANGED <<PILLAR_MODELS, limiter, DNA_ANALYZER, TEMPORAL_MODEL,
                   INDUSTRY_MODEL, remembered, seen, endpoint, pillar_scores, data,
                   base_probability, evaluation, opinions, response>>

\* One try block of load_advanced_models: with the directory the global is
\* assigned the new instance and then its load is called; the except clause
\* logs the exception and assigns nothing.
AfterTryBlock(outcome) ==
    IF outcome = "absent" THEN None
    ELSE IF outcome = "loaded" THEN Loaded
    ELSE Unloaded

\* load_advanced_models: its three try blocks, one after the other.
load_advanced_models ==
    /\ pc = "load_advanced_models"
    /\ \E dna \in LoadOutcomes, temporal \in LoadOutcomes, industry \in LoadOutcomes :
        /\ DNA_ANALYZER' = AfterTryBlock(dna)
        /\ TEMPORAL_MODEL' = AfterTryBlock(temporal)
        /\ INDUSTRY_MODEL' = AfterTryBlock(industry)
        /\ load_raised' = load_raised
                \cup (IF dna = "raised" THEN {"DNA_ANALYZER"} ELSE {})
                \cup (IF temporal = "raised" THEN {"TEMPORAL_MODEL"} ELSE {})
                \cup (IF industry = "raised" THEN {"INDUSTRY_MODEL"} ELSE {})
    /\ pc' = "idle"
    /\ UNCHANGED <<models, limiter, remembered, seen, endpoint, pillar_scores, data,
                   base_probability, evaluation, opinions, response>>

\* The globals a request finds set: `STAGE_MODEL is not None` in predict,
\* `if DNA_ANALYZER:` and its like in predict_advanced (an instance is truthy,
\* loaded or not).
ModelsInUse ==
    {name \in OptionalModels :
        \/ name = "STAGE_MODEL" /\ STAGE_MODEL # None
        \/ name = "DNA_ANALYZER" /\ DNA_ANALYZER # None
        \/ name = "TEMPORAL_MODEL" /\ TEMPORAL_MODEL # None
        \/ name = "INDUSTRY_MODEL" /\ INDUSTRY_MODEL # None}

\* POST /predict_advanced after startup: predict, then each optional model
\* whose global is set is called inside its own try block; a temporal model
\* that was loaded answers, one that was not raises and leaves
\* temporal_preds None.
PredictAdvancedAfterStartup ==
    /\ pc = "idle"
    /\ \E metrics \in LimitedMetrics, raw \in {Uniform(500)} :
        \E stage \in StageOpinions(metrics.funding_stage) :
            LET served == PredictBody(metrics, raw, 800, 0, stage)
                temporal_medium == IF TEMPORAL_MODEL = Loaded THEN <<One>> ELSE None
            IN  /\ data' = metrics
                /\ pillar_scores' = served.pillar_scores
                /\ base_probability' = served.final_prediction
                /\ evaluation' = served.evaluation
                /\ opinions' = [served.opinions EXCEPT !.temporal = temporal_medium]
                                    @@ [called |-> ModelsInUse]
                /\ response' = AdvancedPredictionResponse(served.response,
                                                          temporal_medium)
    /\ endpoint' = "predict_advanced"
    /\ pc' = "done"
    /\ UNCHANGED kept

StartupNext ==
    \/ load_models
    \/ load_stage_models
    \/ load_advanced_models
    \/ PredictAdvancedAfterStartup
    \/ Return

StartupSpec == ServerInit /\ [][StartupNext]_vars

----------------------------------------------------------------------------
(* rate_limit: the rate-limited endpoints, several clients, the clock *)

\* The parameters of the decorator on /predict and /predict_advanced, in the
\* model's sizes (the code passes max_requests=100 and window=3600), and the
\* last value of the clock.
max_requests == 2
window == 2
MaxTime == 2

\* f"Rate limit exceeded. Max {max_requests} requests per {window} seconds."
RateLimitDetail(max, win) ==
    "Rate limit exceeded. Max " \o ToString(max) \o " requests per "
        \o ToString(win) \o " seconds."

\* [timestamp for timestamp in record if current_time - timestamp < window]
Younger(record, current_time, win) ==
    SelectSeq(record, LAMBDA timestamp : current_time - timestamp < win)

\* A variant that rejects only above max_requests.
rate_limit_above(record, current_time, max, win) ==
    LET pruned == Younger(record, current_time, win)
    IN  IF Len(pruned) > max
        THEN [raised |-> TRUE, record |-> pruned]
        ELSE [raised |-> FALSE, record |-> Append(pruned, current_time)]

\* A variant that records the rejected call too.
rate_limit_counts_rejected(record, current_time, max, win) ==
    LET pruned == Younger(record, current_time, win)
    IN  IF Len(pruned) >= max
        THEN [raised |-> TRUE, record |-> Append(pruned, current_time)]
        ELSE [raised |-> FALSE, record |-> Append(pruned, current_time)]

\* The wrapper up to its call of func, on the client's record: the record is
\* pruned and stored; with max_requests timestamps left the wrapper raises
\* HTTPException(429), otherwise it appends current_time.  No await lies
\* between these lines: the wrapper runs them in one piece.
rate_limit(record, current_time, max, win) ==
    LET pruned == Younger(record, current_time, win)
    IN  IF Len(pruned) >= max
        THEN [raised |-> TRUE, record |-> pruned]
        ELSE [raised |-> FALSE, record |-> Append(pruned, current_time)]

\* The 429 of the wrapper as the client gets it.
TooManyRequests ==
    [status |-> 429, detail |-> RateLimitDetail(max_requests, window)]

\* The request is answered without an evaluation.
Responds(name, resp) ==
    /\ data' = NoCall
    /\ pillar_scores' = NoCall
    /\ base_probability' = 0
    /\ evaluation' = NoCall
    /\ opinions' = NoCall
    /\ response' = resp
    /\ endpoint' = name
    /\ pc' = "done"

\* The body of predict runs for an admitted call and answers, or raises and
\* answers 500; predict_advanced copies the standard response.
PredictRuns(name) ==
    \/ \E metrics \in LimitedMetrics :
            LET stage == [raised |-> FALSE, proba |-> <<One>>]
                served == PredictBody(metrics, Uniform(600), 800, 0, stage)
            IN  /\ data' = metrics
                /\ pillar_scores' = served.pillar_scores
                /\ base_probability' = served.final_prediction
                /\ evaluation' = served.evaluation
                /\ opinions' = served.opinions
                /\ response' = IF name = "predict" THEN served.response
                               ELSE AdvancedPredictionResponse(served.response, None)
                /\ endpoint' = name
                /\ pc' = "done"
    \/ Responds(name, [status |-> 500])

\* The wrapper is called for a request of client_id.
WrapperCall(client_id, nested) ==
    LET call == rate_limit(rate_limit_storage[client_id], clock, max_requests, window)
    IN  /\ rate_limit_storage' = [rate_limit_storage EXCEPT ![client_id] = call.record]
        /\ limited' = [ client_id    |-> client_id,
                        current_time |-> clock,
                        raised       |-> call.raised,
                        nested       |-> nested ]

\* POST /predict through its decorator.
PredictLimited ==
    /\ pc = "idle"
    /\ \E client_id \in Clients :
        /\ WrapperCall(client_id, FALSE)
        /\ IF limited'.raised
           THEN /\ admitted' = admitted
                /\ Responds("predict", TooManyRequests)
           ELSE /\ admitted' = [admitted EXCEPT ![client_id] = Append(@, clock)]
                /\ PredictRuns("predict")
    /\ UNCHANGED <<clock, last_call, models, optional, remembered, seen>>

\* POST /predict_advanced through its decorator, up to the handler's call of
\* predict.
PredictAdvancedLimited ==
    /\ pc = "idle"
    /\ \E client_id \in Clients :
        /\ WrapperCall(client_id, FALSE)
        /\ IF limited'.raised
           THEN /\ admitted' = admitted
                /\ Responds("predict_advanced", TooManyRequests)
           ELSE /\ admitted' = [admitted EXCEPT ![client_id] = Append(@, clock)]
                /\ endpoint' = "predict_advanced"
                /\ pc' = "nested"
                /\ UNCHANGED <<data, pillar_scores, base_probability, evaluation,
                               opinions, response>>
    /\ UNCHANGED <<clock, last_call, models, optional, remembered, seen>>

\* predict_advanced awaits predict(request, metrics): the name predict is the
\* decorated function, so the wrapper runs again for the same client.  Its
\* HTTPException(429) is raised inside predict_advanced's try block, whose
\* except Exception answers 500.
NestedPredict ==
    /\ pc = "nested"
    /\ WrapperCall(limited.client_id, TRUE)
    /\ IF limited'.raised
       THEN Responds("predict_advanced", [status |-> 500])
       ELSE PredictRuns("predict_advanced")
    /\ UNCHANGED <<clock, admitted, last_call, models, optional, remembered, seen>>

\* time.time() moves on, between requests or between the two calls of the
\* wrapper in a /predict_advanced request.
Tick ==
    /\ pc \in {"idle", "nested"}
    /\ clock < MaxTime
    /\ clock' = clock + 1
    /\ UNCHANGED <<rate_limit_storage, limited, admitted, last_call, models, optional,
                   remembered, seen, pc, endpoint, pillar_scores, data,
                   base_probability, evaluation, opinions, response>>

\* The response is sent; the observer keeps the wrapper's call as the
\* client's last.
LimitedReturn ==
    /\ pc = "done"
    /\ pc' = "idle"
    /\ last_call' = [last_call EXCEPT ![limited.client_id] =
                        <<[current_time |-> limited.current_time,
                           raised |-> limited.raised]>>]
    /\ limited' = NoCall
    /\ endpoint' = "none"
    /\ pillar_scores' = NoCall
    /\ data' = NoCall
    /\ base_probability' = 0
    /\ evaluation' = NoCall
    /\ opinions' = NoCall
    /\ response' = NoCall
    /\ UNCHANGED <<rate_limit_storage, clock, admitted, models, optional,
                   remembered, seen>>

LimiterNext ==
    \/ PredictLimited
    \/ PredictAdvancedLimited
    \/ NestedPredict
    \/ Tick
    \/ LimitedReturn

LimiterSpec == Init /\ [][LimiterNext]_vars

----------------------------------------------------------------------------
(* StartupMetrics built from a request body: the market sizes *)

\* confloat(ge=0, le=1e12): the field's own constraint.
SizeErrors(field, v) ==
    IF v < 0 THEN <<field \o ": ensure this value is greater than or equal to 0">>
    ELSE <<>>

\* The validators of tam_size_usd and sam_size_usd.  values holds the fields
\* validated before the one at hand.
tam_greater_than_sam(v, values) ==
    IF "sam_size_usd" \in DOMAIN values /\ v < values.sam_size_usd
    THEN <<"TAM must be greater than or equal to SAM">>
    ELSE <<>>

sam_greater_than_som(v, values) ==
    IF "som_size_usd" \in DOMAIN values /\ v < values.som_size_usd
    THEN <<"SAM must be greater than or equal to SOM">>
    ELSE <<>>

\* The dict {key: v}.
OneKey(key, v) == [k \in {key} |-> v]

\* StartupMetrics(**body), in the market sizes: the fields are validated in
\* the order the class declares them (tam_size_usd, sam_size_usd,
\* som_size_usd), each by its constraint and then, if that passed, by its
\* validator; a field that passed joins values for the fields after it.  The
\* result is the list of errors, empty when the model is built.
StartupMetricsErrors(body) ==
    LET tam_errors ==
            IF SizeErrors("tam_size_usd", body.tam_size_usd) # <<>>
            THEN SizeErrors("tam_size_usd", body.tam_size_usd)
            ELSE tam_greater_than_sam(body.tam_size_usd, NoKeys)
        after_tam ==
            IF tam_errors = <<>> THEN OneKey("tam_size_usd", body.tam_size_usd)
            ELSE NoKeys
        sam_errors ==
            IF SizeErrors("sam_size_usd", body.sam_size_usd) # <<>>
            THEN SizeErrors("sam_size_usd", body.sam_size_usd)
            ELSE sam_greater_than_som(body.sam_size_usd, after_tam)
        som_errors == SizeErrors("som_size_usd", body.som_size_usd)
    IN  tam_errors \o sam_errors \o som_errors

\* The market sizes of the request bodies: one below the fields' range, the
\* others in every order.
MarketSizes == {0 - 1, 50, 100, 1000}

\* The request bodies: every triple of market sizes, the other fields valid.
RequestBodies ==
    { [tam_size_usd |-> tam, sam_size_usd |-> sam, som_size_usd |-> som]
          @@ [QuietData EXCEPT !.funding_stage = "seed",
                               !.investor_tier_primary = "tier_1",
                               !.runway_months = r] :
        tam \in MarketSizes, sam \in MarketSizes, som \in MarketSizes, r \in {2, 12} }

\* POST /predict with a body: FastAPI builds StartupMetrics from it and
\* answers 422 with the errors when that fails; otherwise predict runs on the
\* metrics.
PostPredict ==
    /\ pc = "idle"
    /\ \E body \in RequestBodies :
        LET errors == StartupMetricsErrors(body)
        IN  IF errors # <<>>
            THEN /\ data' = body
                 /\ pillar_scores' = NoCall
                 /\ base_probability' = 0
                 /\ evaluation' = NoCall
                 /\ opinions' = NoCall
                 /\ response' = [status |-> 422, detail |-> errors]
            ELSE \E raw \in RawScores, stage \in StageOpinions(body.funding_stage) :
                    LET served == PredictBody(body, raw, 800, 0, stage)
                    IN  /\ data' = body
                        /\ pillar_scores' = served.pillar_scores
                        /\ base_probability' = served.final_prediction
                        /\ evaluation' = served.evaluation
                        /\ opinions' = served.opinions
                        /\ response' = served.response
    /\ endpoint' = "predict"
    /\ pc' = "done"
    /\ UNCHANGED kept

ValidationNext ==
    \/ PostPredict
    \/ Return

ValidationSpec == Init /\ [][ValidationNext]_vars

----------------------------------------------------------------------------
(* Properties *)

\* A call of evaluate_startup_comprehensive has returned (directly, or inside
\* /predict or the /predict_advanced of api_server.py).
Evaluated ==
    /\ pc = "done"
    /\ endpoint \in {"evaluate", "predict", "predict_advanced"}
    /\ evaluation # NoCall

\* An endpoint has answered with a response.
Answered == pc = "done" /\ endpoint # "evaluate" /\ response.status = 200

\* The key is in the dict and its value satisfies the test.
Has(d, key) == key \in DOMAIN d

\* The rules of check_critical_failures as the specification states them;
\* an absent churn_rate does not fire.
RunwayRule(d) == d.runway_months < 3
BurnRule(d) == d.burn_multiple > 5
ConcentrationRule(d) == d.customer_concentration_percent > 80
ChurnRule(d) == Has(d, "churn_rate") /\ d.churn_rate > 20
FounderRule(d) == d.founders_count = 1 /\ d.key_person_dependency = TRUE

AnyCriticalRule(d) ==
    RunwayRule(d) \/ BurnRule(d) \/ ConcentrationRule(d) \/ ChurnRule(d) \/ FounderRule(d)

\* C1. Critical-failure dominance: whenever check_critical_failures returns a
\* non-empty list for the raw metrics, whatever the stage, the pillar scores
\* (all 1.0 included) and the base probability, the evaluation's verdict is
\* FAIL, its strength CRITICAL and its risk_level 'Critical Risk'.
C1_CriticalFailureDominance ==
    (Evaluated /\ check_critical_failures(data) # <<>>) =>
        /\ evaluation.verdict = "FAIL"
        /\ evaluation.strength = "CRITICAL"
        /\ evaluation.risk_level = "Critical Risk"

\* A critical failure with every pillar score 1.0 and weighted_score 1.0.
C1_Witness ==
    /\ Evaluated
    /\ check_critical_failures(data) # <<>>
    /\ \A pillar \in Pillars : pillar_scores[pillar] = One
    /\ evaluation.weighted_score = One * One
    /\ base_probability = One
    /\ evaluation.verdict = "FAIL"

\* C2. Verdict/probability consistency: for every base probability in [0,1]
\* the adjusted probability is at most 0.45 under FAIL, within [0.45, 0.65]
\* under CONDITIONAL PASS, at least 0.55 under PASS, and always in [0,1].
C2_VerdictProbabilityConsistency ==
    (Evaluated /\ base_probability \in 0..One) =>
        /\ evaluation.adjusted_probability \in 0..One
        /\ evaluation.verdict = "FAIL" => evaluation.adjusted_probability <= FailCap
        /\ evaluation.verdict = "CONDITIONAL PASS" =>
              evaluation.adjusted_probability \in FailCap..ConditionalCap
        /\ evaluation.verdict = "PASS" => evaluation.adjusted_probability >= PassFloor

\* A CONDITIONAL PASS whose base probability was below 0.45 and was raised.
C2_Witness ==
    /\ Evaluated
    /\ evaluation.verdict = "CONDITIONAL PASS"
    /\ base_probability < FailCap
    /\ evaluation.adjusted_probability = FailCap

\* The rows of the decision table of section 4.4, each with the rows above
\* it excluded (first match wins).
Row1(ev) == ev.critical_failures # <<>>
Row2(ev) == ~Row1(ev) /\ Len(ev.below_threshold) = 0 /\ ev.weighted_score >= PassBar
Row3(ev) == ~Row1(ev) /\ ~Row2(ev)
            /\ Len(ev.below_threshold) <= 1 /\ ev.weighted_score >= ModerateBar
Row4(ev) == ~Row1(ev) /\ ~Row2(ev) /\ ~Row3(ev)
            /\ ev.weighted_score >= WeakBar /\ Len(ev.below_threshold) <= 2
Row5(ev) == ~Row1(ev) /\ ~Row2(ev) /\ ~Row3(ev) /\ ~Row4(ev)

Triple(ev) == <<ev.verdict, ev.strength, ev.risk_level>>

\* C3. The verdict classifier is the ordered first-match decision table: the
\* returned (verdict, strength, risk_level) is that of the first row that
\* matches the returned critical_failures, below_threshold and weighted_score.
C3_DecisionTable ==
    Evaluated =>
        /\ Row1(evaluation) => Triple(evaluation) = <<"FAIL", "CRITICAL", "Critical Risk">>
        /\ Row2(evaluation) => Triple(evaluation) = <<"PASS", "STRONG", "Low Risk">>
        /\ Row3(evaluation) =>
              Triple(evaluation) = <<"CONDITIONAL PASS", "MODERATE", "Medium Risk">>
        /\ Row4(evaluation) =>
              Triple(evaluation) = <<"CONDITIONAL PASS", "WEAK", "Medium-High Risk">>
        /\ Row5(evaluation) => Triple(evaluation) = <<"FAIL", "WEAK", "High Risk">>

\* One pillar below its threshold with a weighted score of at least 0.60: the
\* PASS row does not match, and the MODERATE row, which the WEAK row's
\* condition also covers, wins.
C3_Witness ==
    /\ Evaluated
    /\ evaluation.critical_failures = <<>>
    /\ Len(evaluation.below_threshold) = 1
    /\ evaluation.weighted_score >= PassBar
    /\ evaluation.strength = "MODERATE"

\* C4. Every probability an advanced prediction endpoint returns is reconciled
\* with the verdict: a request whose raw metrics trigger a critical failure
\* is never answered with success_probability > 0.45, by either
\* /predict_advanced, whatever the model opinions are.
C4_AdvancedProbabilityReconciled ==
    (/\ Answered
     /\ endpoint \in {"predict_advanced", "predict_advanced_integration"}
     /\ check_critical_failures(data) # <<>>)
        => response.success_probability <= FailCap

\* The row of the stage tables that belongs to a stage the schema accepts.
OwnRow(funding_stage) ==
    CASE funding_stage = "pre_seed" -> "Pre_seed"
      [] funding_stage = "seed"     -> "Seed"
      [] funding_stage = "series_a" -> "Series_A"
      [] funding_stage = "series_b" -> "Series_B"
      [] funding_stage = "series_c" -> "Series_C"
      [] OTHER                      -> "Seed"

\* C5. Stage-conditioned evaluation: a request whose funding_stage is
\* pre_seed, series_a, series_b or series_c is evaluated with that stage's own
\* row of weights and thresholds, not with the seed row.
C5_StageOwnRow ==
    (/\ Answered
     /\ endpoint = "predict"
     /\ data.funding_stage \in {"pre_seed", "series_a", "series_b", "series_c"})
        => /\ evaluation.stage_thresholds = StageThresholdTable[OwnRow(data.funding_stage)]
           /\ evaluation.stage_weights = StageWeightTable[OwnRow(data.funding_stage)]

\* delta when the rule holds, nothing otherwise.
Delta(holds, delta) == IF holds THEN delta ELSE 0

\* The rule tables of section 4.3, pillar by pillar.  A rule on a key the
\* dict does not hold does not apply.  The investor-tier rule applies when
\* the tier is not one of the function's two top-tier strings.
MarketDeltas(d) ==
    Delta(d.customer_concentration_percent > 50, -100)
    + Delta(Has(d, "regulatory_risk_score") /\ d.regulatory_risk_score > 4, -150)
    + Delta(d.competition_intensity >= 4, -50)
    + Delta(d.net_dollar_retention_percent > 130, 100)

CapitalDeltas(d) ==
    Delta(d.has_debt /\ Has(d, "debt_to_equity_ratio") /\ d.debt_to_equity_ratio > 2, -100)
    + Delta(d.investor_tier_primary \notin TopTiers, -50)

AdvantageDeltas(d) ==
    Delta(~d.network_effects_present, -50)
    + Delta(d.switching_cost_score < 3, -50)
    + Delta(d.patent_count > 5, 50)

PeopleDeltas(d) ==
    Delta(d.prior_successful_exits_count = 0, -50)
    + Delta(d.team_diversity_percent < 20, -50)
    + Delta(d.prior_successful_exits_count > 1, 100)

PillarDeltas(pillar, d) ==
    CASE pillar = "market"    -> MarketDeltas(d)
      [] pillar = "capital"   -> CapitalDeltas(d)
      [] pillar = "advantage" -> AdvantageDeltas(d)
      [] pillar = "people"    -> PeopleDeltas(d)

Clamped(x) == IF x < 0 THEN 0 ELSE IF x > One THEN One ELSE x

\* C6. Pillar risk adjustment: every adjusted score is the base score plus
\* the sum of all the deltas of that pillar's rules that hold (not only the
\* first, and none of another pillar's), clamped to [0,1]; so it is in [0,1].
C6_RiskAdjustmentSumsAllDeltas ==
    Evaluated =>
        \A pillar \in DOMAIN pillar_scores :
            /\ evaluation.adjusted_pillar_scores[pillar]
                  = Clamped(pillar_scores[pillar] + PillarDeltas(pillar, data))
            /\ evaluation.adjusted_pillar_scores[pillar] \in 0..One

\* All four market rules hold at once and none is lost: 0.5 becomes
\* 0.5 - 0.10 - 0.15 - 0.05 + 0.10 = 0.3, the other pillars keep their score.
C6_Witness ==
    /\ Evaluated
    /\ MarketDeltas(data) = -200
    /\ Has(data, "regulatory_risk_score")
    /\ data.net_dollar_retention_percent > 130
    /\ pillar_scores.market = 500
    /\ evaluation.adjusted_pillar_scores.market = 300
    /\ evaluation.adjusted_pillar_scores.capital = pillar_scores.capital

\* C7. The capital pillar gets the -0.05 investor-tier penalty only when the
\* tier is not tier_1 or tier_2: a request with investor_tier_primary
\* 'tier_1' or 'tier_2' and no debt rule firing keeps its capital score.
C7_TopTierKeepsCapitalScore ==
    (/\ Answered
     /\ endpoint = "predict"
     /\ data.investor_tier_primary \in {"tier_1", "tier_2"}
     /\ ~(data.has_debt /\ Has(data, "debt_to_equity_ratio")
            /\ data.debt_to_equity_ratio > 2))
        => evaluation.adjusted_pillar_scores.capital = pillar_scores.capital

\* C8. For every stage, known or falling back to seed, the four weights sum
\* to 1.0, and weighted_score, the sum over the four pillars of adjusted
\* score times weight, lies in [0,1].
C8_WeightsSumToOne ==
    Evaluated =>
        LET w == evaluation.stage_weights
            a == evaluation.adjusted_pillar_scores
        IN  /\ w.capital + w.advantage + w.market + w.people = One
            /\ evaluation.weighted_score
                  = a.capital * w.capital + a.advantage * w.advantage
                      + a.market * w.market + a.people * w.people
            /\ evaluation.weighted_score >= 0
            /\ evaluation.weighted_score <= One * One

\* Four adjusted scores of 1.0 at the pre-seed row: weighted_score is 1.0.
C8_Witness ==
    /\ Evaluated
    /\ data.funding_stage = "Pre-seed"
    /\ \A pillar \in Pillars : evaluation.adjusted_pillar_scores[pillar] = One
    /\ evaluation.weighted_score = One * One

\* The elements of a sequence.
Range(seq) == {seq[i] : i \in 1..Len(seq)}

\* C9. below_threshold is exactly the set of pillars whose adjusted score is
\* strictly below the stage threshold (a score equal to it is not below);
\* at stage seed with four adjusted scores of 0.5 and no critical failure,
\* below_threshold is empty, weighted_score is 0.5 and the verdict is
\* CONDITIONAL PASS with strength WEAK.
C9_BelowThresholdStrict ==
    Evaluated =>
        /\ Range(evaluation.below_threshold)
              = {pillar \in DOMAIN pillar_scores :
                    Clamped(pillar_scores[pillar] + PillarDeltas(pillar, data))
                        < evaluation.stage_thresholds[pillar]}
        /\ Len(evaluation.below_threshold) = Cardinality(Range(evaluation.below_threshold))
        /\ (/\ Get(data, "funding_stage", "Seed") = "Seed"
            /\ \A pillar \in Pillars : evaluation.adjusted_pillar_scores[pillar] = 500
            /\ ~AnyCriticalRule(data))
              => /\ evaluation.below_threshold = <<>>
                 /\ evaluation.weighted_score = 500000
                 /\ evaluation.verdict = "CONDITIONAL PASS"
                 /\ evaluation.strength = "WEAK"

\* Scenario B reached through an adjustment: the raw people score 0.55 is
\* lowered to 0.5, equal to the seed threshold, and people is not below it.
C9_Witness ==
    /\ Evaluated
    /\ data.funding_stage = "Seed"
    /\ pillar_scores.people = 550
    /\ \A pillar \in Pillars : evaluation.adjusted_pillar_scores[pillar] = 500
    /\ evaluation.stage_thresholds.people = 500
    /\ evaluation.below_threshold = <<>>
    /\ evaluation.verdict = "CONDITIONAL PASS"
    /\ evaluation.strength = "WEAK"

\* The messages in the fixed order of the rules.
FailureOrder ==
    <<RunwayFailure, BurnFailure, ConcentrationFailure, ChurnFailure, FounderFailure>>

FiringFailures(d) ==
    {msg \in Range(FailureOrder) :
        \/ msg = RunwayFailure /\ RunwayRule(d)
        \/ msg = BurnFailure /\ BurnRule(d)
        \/ msg = ConcentrationFailure /\ ConcentrationRule(d)
        \/ msg = ChurnFailure /\ ChurnRule(d)
        \/ msg = FounderFailure /\ FounderRule(d)}

\* C10. check_critical_failures returns exactly the messages of the rules
\* that hold, in the fixed order, every firing rule included; a missing
\* churn_rate never fires; the result is empty iff no rule holds.
C10_AllCriticalRulesCollected ==
    Evaluated =>
        /\ evaluation.critical_failures = SelectInOrder(FailureOrder, FiringFailures(data))
        /\ ~Has(data, "churn_rate") => ChurnFailure \notin Range(evaluation.critical_failures)
        /\ evaluation.critical_failures = <<>> <=> ~AnyCriticalRule(data)

\* All five rules hold and all five messages are returned.
C10_Witness ==
    /\ Evaluated
    /\ RunwayRule(data) /\ BurnRule(data) /\ ConcentrationRule(data)
    /\ ChurnRule(data) /\ FounderRule(data)
    /\ evaluation.critical_failures = FailureOrder

\* The fusion endpoint has answered.
Fused == pc = "done" /\ endpoint = "predict_advanced_integration"

\* The weights of the four opinions, in thousandths.
OpinionOrder == <<"base", "stage", "industry", "temporal">>
OpinionWeight == [base |-> 1000, stage |-> 200, industry |-> 150, temporal |-> 100]

PresentOpinions(o) == {k \in Range(OpinionOrder) : o[k] # None}

\* sum(weight * value) and sum(weight) over the opinions that are present.
WeightedOpinionSum(o) ==
    SumSeq([k \in Range(OpinionOrder) |-> OpinionWeight[k] * o[k][1]],
           SelectInOrder(OpinionOrder, PresentOpinions(o)))
PresentWeightSum(o) ==
    SumSeq(OpinionWeight, SelectInOrder(OpinionOrder, PresentOpinions(o)))

\* p (thousandths) is a nearest thousandth of num / den.
NearestThousandth(p, num, den) ==
    /\ 2 * (p * den - num) <= den
    /\ 2 * (num - p * den) <= den

\* C11. Model-family fusion: the returned probability is the quotient of
\* (base + 0.20*stage + 0.15*industry + 0.10*temporal_medium) by 1.0 plus the
\* weights of the opinions present, absent opinions in neither sum, to the
\* three decimals of the response; with no auxiliary opinion it is the base
\* probability exactly; with all values in [0,1] it is in [0,1].
C11_FusionOverPresentOpinions ==
    Fused =>
        /\ NearestThousandth(response.success_probability,
                             WeightedOpinionSum(opinions), PresentWeightSum(opinions))
        /\ PresentOpinions(opinions) = {"base"} =>
              response.success_probability = opinions.base[1]
        /\ response.success_probability \in 0..One

\* Two fusions of the base 0.8: alone it is returned as it is; with a stage
\* opinion of 0.5 and no other, (0.8 + 0.2*0.5) / 1.2 = 0.75.
C11_Witness ==
    /\ Fused
    /\ opinions.base = <<800>>
    /\ opinions.stage = <<500>>
    /\ opinions.industry = None /\ opinions.temporal = None
    /\ response.success_probability = 750

\* /predict has run evaluate_startup_comprehensive and answered.
PredictAnswered ==
    /\ pc = "done"
    /\ endpoint = "predict"
    /\ evaluation # NoCall
    /\ response.status = 200

\* /predict has got past the stage model.
PredictEvaluated == pc = "done" /\ endpoint = "predict" /\ evaluation # NoCall

\* C12. In /predict the probability handed to the verdict engine is
\* 0.6*stage_proba + 0.4*base_prediction when the stage model is loaded and
\* its prediction succeeds, and base_prediction itself when the stage model
\* is not loaded or its prediction raises; the request whose stage model
\* raised is answered, not failed.
C12_StageBlendOrBase ==
    PredictEvaluated =>
        /\ (STAGE_MODEL # None /\ ~opinions.stage_raised) =>
              /\ opinions.stage # None
              /\ 10 * base_probability = 6 * opinions.stage[1] + 4 * opinions.base[1]
        /\ (STAGE_MODEL = None \/ opinions.stage_raised) =>
              base_probability = opinions.base[1]
        /\ opinions.stage_raised => response.status = 200

\* The stage model is loaded, its prediction raised, and the request was
\* answered from the base prediction 0.8.
C12_Witness ==
    /\ PredictAnswered
    /\ STAGE_MODEL # None
    /\ opinions.stage_raised
    /\ opinions.base = <<800>>
    /\ base_probability = 800

\* C13. When the stage model is loaded but holds no sub-model for the
\* request's funding_stage, the stage opinion is omitted and the probability
\* /predict hands to the verdict engine is base_prediction.
C13_NoStageDataNoStageOpinion ==
    (PredictEvaluated /\ STAGE_MODEL # None
        /\ data.funding_stage \notin STAGE_MODEL[1]) =>
            /\ opinions.stage = None
            /\ base_probability = opinions.base[1]

\* C15. Whenever /predict answers, whichever pillar model files the process
\* found at startup, the response's pillar_scores has exactly the keys
\* capital, advantage, market and people, the keys of the unadjusted scores,
\* and every value is in [0,1].
C15_FourPillarKeys ==
    PredictAnswered =>
        /\ DOMAIN response.pillar_scores = Pillars
        /\ DOMAIN response.pillar_scores = DOMAIN pillar_scores
        /\ \A pillar \in DOMAIN response.pillar_scores :
              response.pillar_scores[pillar] \in 0..One

\* The call that has returned has the arguments of the remembered call.
SameCallAsRemembered ==
    /\ pc = "done"
    /\ endpoint = "evaluate"
    /\ remembered # NoCall
    /\ pillar_scores = remembered.pillar_scores
    /\ data = remembered.data
    /\ base_probability = remembered.base_probability

SeedWeights == [capital |-> 200, advantage |-> 300, market |-> 250, people |-> 250]
SeedThresholds == [capital |-> 350, advantage |-> 450, market |-> 400, people |-> 500]

\* The stage strings that name a row of the tables, in the code's spelling or
\* in the request schema's.
RecognizedStages == TableStages \cup (SchemaStages \ {"growth"})

\* C16. get_stage_weights and get_stage_thresholds are total: for any stage
\* string they return a mapping over the four pillars, and for an
\* unrecognized one, such as 'unicorn_plus', the seed profile: weights
\* 0.20/0.30/0.25/0.25 and thresholds 0.35/0.45/0.40/0.50 for
\* capital/advantage/market/people.
C16_UnknownStageIsSeed ==
    Evaluated =>
        /\ DOMAIN evaluation.stage_weights = Pillars
        /\ DOMAIN evaluation.stage_thresholds = Pillars
        /\ data.funding_stage \notin RecognizedStages =>
              /\ evaluation.stage_weights = SeedWeights
              /\ evaluation.stage_thresholds = SeedThresholds

\* An evaluation at the stage 'unicorn_plus' with the seed profile: people
\* at 0.45 is below the seed threshold 0.50.
C16_Witness ==
    /\ Evaluated
    /\ data.funding_stage = UnknownStage
    /\ evaluation.stage_weights = SeedWeights
    /\ evaluation.stage_thresholds = SeedThresholds
    /\ evaluation.adjusted_pillar_scores.people = 450
    /\ "people" \in Range(evaluation.below_threshold)

\* The stage order of the tables.
StageOrder == <<"Pre-seed", "Seed", "Series A", "Series B", "Series C">>

\* C17. Stage thresholds trend upward: for each pillar the threshold of a
\* stage is at least that of every earlier stage in the order pre-seed,
\* seed, series A, series B, series C.
C17_ThresholdsNonDecreasing ==
    Evaluated =>
        \A i \in 1..Len(StageOrder), j \in 1..Len(StageOrder) :
            (i < j /\ data.funding_stage = StageOrder[j]) =>
                \A pillar \in Pillars :
                    get_stage_thresholds(StageOrder[i])[pillar]
                        <= evaluation.stage_thresholds[pillar]

\* The outcomes of the decision table.
Outcomes ==
    { <<"FAIL", "CRITICAL">>, <<"PASS", "STRONG">>, <<"CONDITIONAL PASS", "MODERATE">>,
      <<"CONDITIONAL PASS", "WEAK">>, <<"FAIL", "WEAK">> }

\* C18. Every evaluation yields exactly one of the five outcomes (FAIL,
\* CRITICAL), (PASS, STRONG), (CONDITIONAL PASS, MODERATE), (CONDITIONAL
\* PASS, WEAK), (FAIL, WEAK), and each of the five is returned for some pillar
\* scores in [0,1] and schema-valid metrics (the witness).
C18_FiveOutcomes ==
    /\ seen \subseteq Outcomes
    /\ Evaluated =>
          /\ Cardinality({o \in Outcomes : o = <<evaluation.verdict, evaluation.strength>>}) = 1
          /\ <<evaluation.verdict, evaluation.strength>> \in seen
          /\ Cardinality({k \in 1..5 :
                \/ k = 1 /\ Row1(evaluation)
                \/ k = 2 /\ Row2(evaluation)
                \/ k = 3 /\ Row3(evaluation)
                \/ k = 4 /\ Row4(evaluation)
                \/ k = 5 /\ Row5(evaluation)}) = 1

\* All five outcomes have been returned.
C18_Witness ==
    /\ seen = Outcomes
    /\ Cardinality(seen) = 5
    /\ Evaluated
    /\ data \in SchemaMetrics
    /\ \A pillar \in Pillars : pillar_scores[pillar] \in 0..One

\* generate_insights has returned.
InsightsReturned == pc = "done" /\ endpoint = "generate_insights"

\* A pillar's adjusted score, when the function is given scores, is above
\* 0.7 or below 0.3.
ScoreAbove(scores, pillar) == DOMAIN scores # {} /\ scores[pillar] > 700
ScoreBelow(scores, pillar) == DOMAIN scores # {} /\ scores[pillar] < 300

\* Every insight in the fixed severity order, each with the condition under
\* which it is made.
InsightCandidates(d, scores) ==
    << [fires |-> d.runway_months < 6, insight |-> RunwayCritical],
       [fires |-> d.runway_months >= 6 /\ d.runway_months < 12, insight |-> RunwayWarning],
       [fires |-> d.burn_multiple > 5, insight |-> HighBurn],
       [fires |-> ScoreAbove(scores, "capital"), insight |-> StrongInsight.capital],
       [fires |-> ScoreBelow(scores, "capital"), insight |-> WeakInsight.capital],
       [fires |-> ScoreAbove(scores, "advantage"), insight |-> StrongInsight.advantage],
       [fires |-> ScoreBelow(scores, "advantage"), insight |-> WeakInsight.advantage],
       [fires |-> ScoreAbove(scores, "market"), insight |-> StrongInsight.market],
       [fires |-> ScoreBelow(scores, "market"), insight |-> WeakInsight.market],
       [fires |-> ScoreAbove(scores, "people"), insight |-> StrongInsight.people],
       [fires |-> ScoreBelow(scores, "people"), insight |-> WeakInsight.people],
       [fires |-> d.revenue_growth_rate_percent > 150,
        insight |-> Hypergrowth(d.revenue_growth_rate_percent)],
       [fires |-> d.revenue_growth_rate_percent > 100 /\ d.revenue_growth_rate_percent <= 150,
        insight |-> StrongGrowth(d.revenue_growth_rate_percent)],
       [fires |-> d.net_dollar_retention_percent > 120,
        insight |-> ExcellentNDR(d.net_dollar_retention_percent)],
       [fires |-> d.product_retention_30d > 800,
        insight |-> OutstandingRetention(d.product_retention_30d \div 10)],
       [fires |-> d.customer_concentration_percent > 50,
        insight |-> HighConcentration(d.customer_concentration_percent)],
       [fires |-> Has(d, "churn_rate") /\ d.churn_rate > 10,
        insight |-> HighChurn(Get(d, "churn_rate", 0))] >>

\* The full list: the insights that fire, in that order.
FullInsights(d, scores) ==
    LET firing == SelectSeq(InsightCandidates(d, scores), LAMBDA c : c.fires)
    IN  [i \in 1..Len(firing) |-> firing[i].insight]

\* C19. generate_insights returns at most 6 insights, the first 6 of the
\* full list in the fixed order: runway warning, burn warning, the capital,
\* advantage, market and people statements (adjusted score > 0.7 or < 0.3),
\* the revenue-growth, NDR and retention highlights, the customer-
\* concentration and churn red flags; with runway_months < 6 the first
\* insight is the critical runway warning.
C19_FirstSixInsights ==
    InsightsReturned =>
        LET full == FullInsights(data, pillar_scores)
        IN  /\ Len(response.key_insights) <= 6
            /\ response.key_insights = SubSeq(full, 1, Min(6, Len(full)))
            /\ data.runway_months < 6 =>
                  /\ response.key_insights # <<>>
                  /\ response.key_insights[1] = RunwayCritical

\* Eleven insights fire; the six returned start with the critical runway
\* warning and end with the people statement, and the highlights and red
\* flags are cut.
C19_Witness ==
    /\ InsightsReturned
    /\ Len(FullInsights(data, pillar_scores)) = 11
    /\ data.runway_months < 6
    /\ Len(response.key_insights) = 6
    /\ response.key_insights[1] = RunwayCritical
    /\ response.key_insights[6] = StrongInsight.people

\* generate_recommendation has returned.
RecommendationReturned == pc = "done" /\ endpoint = "generate_recommendation"

\* The texts of the headlines, one per band, and of the pillar statements.
Headlines == {Headline(p) : p \in {0, 300, 450, 600, 750}}
CriticalStatements == {Bullet(detailed_recs[pillar].critical) : pillar \in Pillars}
WeakStatements == {Bullet(detailed_recs[pillar].weak) : pillar \in Pillars}
OptimizeStatements == {Optimize(detailed_recs[pillar].improve) : pillar \in Pillars}

\* The number of parts that are in the set.
Count(parts, texts) == Cardinality({i \in 1..Len(parts) : parts[i] \in texts})

\* The pillars below 0.3, in [0.3, 0.5), and with the least score.
CriticalBucket(scores) == {pillar \in DOMAIN scores : scores[pillar] < 300}
WeakBucket(scores) ==
    {pillar \in DOMAIN scores : scores[pillar] >= 300 /\ scores[pillar] < 500}
LowestScoring(scores) ==
    {pillar \in DOMAIN scores : \A q \in DOMAIN scores : scores[pillar] <= scores[q]}

\* C20. generate_recommendation emits exactly one headline, first, then
\* pillar statements of a single bucket: with a pillar below 0.3, one or two
\* 'critical' statements, of pillars below 0.3, and no 'weak' or 'optimize'
\* statement; otherwise with a pillar in [0.3, 0.5), one or two 'weak'
\* statements, of such pillars; otherwise, only when the probability is at
\* least 0.6, one 'optimize' statement, of a lowest-scoring pillar; never
\* more than 2 pillar statements.
C20_SingleBucket ==
    RecommendationReturned =>
        LET parts == response.rec_parts
            critical == CriticalBucket(pillar_scores)
            weak == WeakBucket(pillar_scores)
            nc == Count(parts, CriticalStatements)
            nw == Count(parts, WeakStatements)
            no == Count(parts, OptimizeStatements)
        IN  /\ parts[1] \in Headlines
            /\ Count(parts, Headlines) = 1
            /\ nc + nw + no <= 2
            /\ critical # {} =>
                  /\ nc \in 1..2 /\ nw = 0 /\ no = 0
                  /\ \A i \in 1..Len(parts) : parts[i] \in CriticalStatements =>
                        \E pillar \in critical :
                            parts[i] = Bullet(detailed_recs[pillar].critical)
            /\ (critical = {} /\ weak # {}) =>
                  /\ nw \in 1..2 /\ nc = 0 /\ no = 0
                  /\ \A i \in 1..Len(parts) : parts[i] \in WeakStatements =>
                        \E pillar \in weak :
                            parts[i] = Bullet(detailed_recs[pillar].weak)
            /\ (critical = {} /\ weak = {} /\ base_probability >= 600) =>
                  /\ no = 1 /\ nc = 0 /\ nw = 0
                  /\ \E pillar \in LowestScoring(pillar_scores) :
                        Optimize(detailed_recs[pillar].improve) \in Range(parts)
            /\ (critical = {} /\ weak = {} /\ base_probability < 600) =>
                  nc + nw + no = 0

\* Three pillars are below 0.3 and one is in [0.3, 0.5): two critical
\* statements follow the headline and nothing is said of the weak pillar.
C20_Witness ==
    /\ RecommendationReturned
    /\ Cardinality(CriticalBucket(pillar_scores)) = 3
    /\ Cardinality(WeakBucket(pillar_scores)) = 1
    /\ Count(response.rec_parts, CriticalStatements) = 2
    /\ Count(response.rec_parts, WeakStatements) = 0
    /\ response.rec_parts[1] \in Headlines

----------------------------------------------------------------------------
(* The rate limiter *)

\* part in text
Contains(text, part) ==
    \E i \in 1..(Len(text) - Len(part) + 1) : SubSeq(text, i, i + Len(part) - 1) = part

\* The number of the client's requests admitted less than window before t.
RecentlyAdmitted(client_id, t) ==
    Cardinality({i \in 1..Len(admitted[client_id]) :
                    t - admitted[client_id][i] < window})

\* The number of the client's requests admitted in the window seconds from t on.
AdmittedWithin(client_id, t) ==
    Cardinality({i \in 1..Len(admitted[client_id]) :
                    t <= admitted[client_id][i] /\ admitted[client_id][i] < t + window})

\* In this step a request arrives at its endpoint's wrapper.
RequestArrives == pc = "idle" /\ pc' \in {"done", "nested"}

\* In this step the wrapper is called, for a request or for the call of
\* predict that predict_advanced makes.
WrapperCalled == RequestArrives \/ (pc = "nested" /\ pc' = "done")

\* This step leaves the other clients' records as they are.
OthersUntouched(client_id) ==
    \A other \in Clients \ {client_id} :
        /\ rate_limit_storage'[other] = rate_limit_storage[other]
        /\ admitted'[other] = admitted[other]

\* C21. Once max_requests of a client's requests have been admitted within
\* the last window seconds, its next request to a rate-limited endpoint is
\* answered 429 with a detail that contains 'Rate limit exceeded'; and over
\* any sequence of requests no more than max_requests of one client's
\* admitted requests fall within any window seconds, whatever the other
\* clients send.
C21_RateLimitEnforced ==
    /\ [](\A client_id \in Clients : \A t \in 0..MaxTime :
              AdmittedWithin(client_id, t) <= max_requests)
    /\ [][RequestArrives =>
              LET client_id == limited'.client_id
              IN  /\ OthersUntouched(client_id)
                  /\ RecentlyAdmitted(client_id, clock) >= max_requests =>
                        /\ pc' = "done"
                        /\ response'.status = 429
                        /\ Contains(response'.detail, "Rate limit exceeded")
                        /\ admitted' = admitted]_vars

\* A client whose first max_requests requests have expired has had
\* max_requests more admitted and its next request is answered 429, while
\* the other client has had requests admitted too.
C21_Witness ==
    /\ pc = "done"
    /\ response.status = 429
    /\ Contains(response.detail, "Rate limit exceeded")
    /\ RecentlyAdmitted(limited.client_id, clock) = max_requests
    /\ Len(admitted[limited.client_id]) = 2 * max_requests
    /\ \E other \in Clients \ {limited.client_id} : admitted[other] # <<>>

\* C24. Whenever the rate limiter rejects a call, the call of predict that
\* predict_advanced makes included, the client's response is 429, never 500.
C24_RejectionIs429 ==
    (pc = "done" /\ limited.raised) => response.status = 429

\* C25. Each admitted request consumes exactly one slot of its client's
\* record, whichever the endpoint: the timestamps of the record younger than
\* window are as many as the client's requests admitted within the window.
C25_OneSlotPerRequest ==
    \A client_id \in Clients :
        Len(Younger(rate_limit_storage[client_id], clock, window))
            = RecentlyAdmitted(client_id, clock)

\* C26. A call the limiter rejects adds no timestamp and changes nothing but
\* the pruning of the client's expired timestamps; a client is admitted
\* whenever fewer than max_requests of its recorded timestamps are younger
\* than window, and always when it has sent nothing for window seconds,
\* rejected requests included.
C26_RejectionOnlyPrunes ==
    /\ [][WrapperCalled =>
              LET client_id == limited'.client_id
                  record == rate_limit_storage[client_id]
              IN  /\ limited'.raised =>
                        /\ rate_limit_storage'[client_id] = Younger(record, clock, window)
                        /\ OthersUntouched(client_id)
                        /\ admitted' = admitted
                  /\ limited'.raised <=>
                        Len(Younger(record, clock, window)) >= max_requests]_vars
    /\ []((pc \in {"done", "nested"} /\ ~limited.nested) =>
              LET before == last_call[limited.client_id]
              IN  (before = None \/ limited.current_time - before[1].current_time >= window)
                      => ~limited.raised)

\* A client's request is admitted less than window seconds after its last
\* request, which was rejected.
C26_Witness ==
    /\ pc = "done"
    /\ ~limited.raised /\ ~limited.nested
    /\ response.status = 200
    /\ last_call[limited.client_id] # None
    /\ last_call[limited.client_id][1].raised
    /\ limited.current_time - last_call[limited.client_id][1].current_time < window

----------------------------------------------------------------------------
(* Startup *)

\* The global of an optional model.
OptionalGlobal(name) ==
    IF name = "STAGE_MODEL" THEN STAGE_MODEL
    ELSE IF name = "DNA_ANALYZER" THEN DNA_ANALYZER
    ELSE IF name = "TEMPORAL_MODEL" THEN TEMPORAL_MODEL
    ELSE INDUSTRY_MODEL

\* C29. If the load of the stage, DNA, temporal or industry model raises
\* during startup, startup still completes and the global of that model is
\* left None, so that every later request treats the model as not loaded.
C29_FailedLoadLeavesNone ==
    /\ pc = "aborted" => load_raised = {}
    /\ pc \in {"idle", "done"} =>
          \A name \in load_raised : OptionalGlobal(name) = None
    /\ (pc = "done" /\ endpoint = "predict_advanced" /\ "called" \in DOMAIN opinions) =>
          opinions.called \cap load_raised = {}

----------------------------------------------------------------------------
(* The market sizes of a request *)

\* POST /predict has been answered, by FastAPI or by the handler, and each
\* market size of the body is within its field's range.
PostAnswered ==
    /\ pc = "done" /\ endpoint = "predict" /\ "tam_size_usd" \in DOMAIN data
    /\ data.tam_size_usd >= 0 /\ data.sam_size_usd >= 0 /\ data.som_size_usd >= 0

\* C22. A request with tam_size_usd < sam_size_usd is rejected with 'TAM must
\* be greater than or equal to SAM', one with sam_size_usd < som_size_usd
\* with 'SAM must be greater than or equal to SOM', and no such request
\* reaches the evaluation.
C22_MarketSizesOrdered ==
    PostAnswered =>
        /\ data.tam_size_usd < data.sam_size_usd =>
              /\ response.status = 422
              /\ "TAM must be greater than or equal to SAM" \in Range(response.detail)
              /\ evaluation = NoCall
        /\ data.sam_size_usd < data.som_size_usd =>
              /\ response.status = 422
              /\ "SAM must be greater than or equal to SOM" \in Range(response.detail)
              /\ evaluation = NoCall

----------------------------------------------------------------------------
(* One pillar's base score raised *)

\* The rows of the decision table without a critical failure, worst first.
RowOrder ==
    <<  <<"FAIL", "WEAK">>, <<"CONDITIONAL PASS", "WEAK">>,
        <<"CONDITIONAL PASS", "MODERATE">>, <<"PASS", "STRONG">>  >>
RowRank(ev) ==
    IF \E i \in 1..Len(RowOrder) : RowOrder[i] = <<ev.verdict, ev.strength>>
    THEN CHOOSE i \in 1..Len(RowOrder) : RowOrder[i] = <<ev.verdict, ev.strength>>
    ELSE 0

\* The evaluation of the same metrics and base probability with one pillar's
\* base score raised to higher.
Raised(pillar, higher) ==
    evaluate_startup_comprehensive([pillar_scores EXCEPT ![pillar] = higher],
                                   data, base_probability)

\* The scores a pillar's base score is raised to.
HigherScores(pillar) == {higher \in ScoreGrid : higher > pillar_scores[pillar]}

\* C27. For fixed metrics and stage, raising one pillar's base score and
\* leaving the others alone never adds a pillar to below_threshold, never
\* lowers weighted_score and never moves the result to a worse row (FAIL/WEAK
\* < CONDITIONAL PASS/WEAK < CONDITIONAL PASS/MODERATE < PASS/STRONG); with a
\* critical failure the result stays FAIL/CRITICAL.
C27_VerdictMonotone ==
    (Evaluated /\ endpoint = "evaluate") =>
        \A pillar \in DOMAIN pillar_scores : \A higher \in HigherScores(pillar) :
            LET after == Raised(pillar, higher)
            IN  /\ Range(after.below_threshold) \subseteq Range(evaluation.below_threshold)
                /\ after.weighted_score >= evaluation.weighted_score
                /\ evaluation.critical_failures = <<>> =>
                      /\ RowRank(evaluation) \in 1..4
                      /\ RowRank(after) >= RowRank(evaluation)
                /\ evaluation.critical_failures # <<>> =>
                      /\ <<evaluation.verdict, evaluation.strength>> = <<"FAIL", "CRITICAL">>
                      /\ <<after.verdict, after.strength>> = <<"FAIL", "CRITICAL">>

\* A call that returns FAIL/WEAK with one pillar below its threshold, and a
\* raise of that pillar alone after which the result is PASS/STRONG with no
\* pillar below its threshold and a larger weighted_score.
C27_Witness ==
    /\ Evaluated /\ endpoint = "evaluate"
    /\ evaluation.critical_failures = <<>>
    /\ RowRank(evaluation) = 1
    /\ Len(evaluation.below_threshold) = 1
    /\ \E pillar \in DOMAIN pillar_scores : \E higher \in HigherScores(pillar) :
          LET after == Raised(pillar, higher)
          IN  /\ RowRank(after) = 4
              /\ after.below_threshold = <<>>
              /\ after.weighted_score > evaluation.weighted_score

----------------------------------------------------------------------------
(* The /predict response *)

\* The risk levels listed for a /predict response.
ListedRiskLevels ==
    {"Very Low Risk", "Low Risk", "Moderate Risk", "High Risk", "Very High Risk",
     "Critical Risk"}

\* C23. In every successful /predict response success_probability is in
\* [0, 1] and risk_level is one of 'Very Low Risk', 'Low Risk', 'Moderate
\* Risk', 'High Risk', 'Very High Risk', 'Critical Risk'.
C23_ProbabilityAndRiskLevelRange ==
    PredictAnswered =>
        /\ response.success_probability \in 0..One
        /\ response.risk_level \in ListedRiskLevels

\* C28. In every /predict response the confidence interval brackets the
\* probability: lower <= success_probability <= upper, whatever the verdict.
C28_IntervalBracketsProbability ==
    PredictAnswered =>
        /\ response.confidence_interval.lower <= response.success_probability
        /\ response.success_probability <= response.confidence_interval.upper

\* text.startswith(prefix)
StartsWith(text, prefix) ==
    Len(text) >= Len(prefix) /\ SubSeq(text, 1, Len(prefix)) = prefix

\* C30. The headline of a /predict response's recommendation never
\* contradicts its verdict: with FAIL it is neither 'STRONG POSITION' nor
\* 'Solid foundation'; with PASS it is neither 'Significant challenges' nor
\* 'CRITICAL: Major pivot'; with CONDITIONAL PASS it is 'Solid foundation' or
\* 'Moderate risk'.
C30_HeadlineAgreesWithVerdict ==
    PredictAnswered =>
        LET text == response.recommendation
        IN  /\ response.verdict = "FAIL" =>
                  /\ ~StartsWith(text, "STRONG POSITION")
                  /\ ~StartsWith(text, "Solid foundation")
            /\ response.verdict = "PASS" =>
                  /\ ~StartsWith(text, "Significant challenges")
                  /\ ~StartsWith(text, "CRITICAL: Major pivot")
            /\ response.verdict = "CONDITIONAL PASS" =>
                  \/ StartsWith(text, "Solid foundation")
                  \/ StartsWith(text, "Moderate risk")

\* A request without a critical failure whose final prediction is 0.3 and
\* whose pillars all pass: the verdict is PASS, the probability is floored at
\* 0.55 and the headline is 'Moderate risk', not the 'Significant challenges'
\* of 0.3.
C30_Witness ==
    /\ PredictAnswered
    /\ base_probability = 300
    /\ response.verdict = "PASS"
    /\ response.success_probability = PassFloor
    /\ StartsWith(response.recommendation, "Moderate risk")

====
